---- MODULE Spec2Model ----
(***************************************************************************)
(* A model of the HPKE encryption context (src/src/aead.rs), the key       *)
(* schedule and setup functions (src/src/setup.rs), the operation modes    *)
(* (src/src/op_mode.rs) and the key exchange (src/src/kex).                *)
(*                                                                         *)
(* Byte strings that come out of a primitive (KDF output, AEAD ciphertext  *)
(* and tag, random bytes) are terms: tuples whose first element names the  *)
(* constructor. Two terms are equal exactly when they were built from the  *)
(* same inputs: the primitives are ideal (no collisions, no forgeries).    *)
(* The sequence counter and the nonce are byte strings on which the code   *)
(* computes (checked_add, big-endian write, XOR); they are modelled byte   *)
(* by byte.                                                                *)
(***************************************************************************)
EXTENDS Integers, Sequences, FiniteSets, TLC

VARIABLES
    pc,        \* "start": no context yet; "sent": setup_sender has run; "run": both contexts exist
    suite,     \* the ciphersuite (A, Kdf, Kem) the contexts are instantiated with
    S,         \* the sender's AeadCtx (inside AeadCtxS)
    R,         \* the receiver's AeadCtx (inside AeadCtxR)
    wire,      \* ghost: what the successful seals returned, in order
    opened,    \* ghost: the plaintexts the successful opens left in the buffer, in order
    okS,       \* ghost: number of successful seals the sender context has performed (9 bytes, big-endian)
    okR,       \* ghost: number of successful opens the receiver context has performed
    last,      \* the last call: its name, inputs, result and what it left in the caller's buffers
    strayed,   \* ghost: some open call was not of the next ciphertext in order with its own aad and tag
    reord,     \* ghost: the last two calls were open(c1) then open(c0), c0 and c1 sealed one after the other
    hs         \* the handshake: keys, modes and info strings given to setup_sender / setup_receiver

vars == <<pc, suite, S, R, wire, opened, okS, okR, last, strayed, reord, hs>>

(***************************************************************************)
(* Bounds of the model.                                                    *)
(***************************************************************************)
\* Successful seals on a context pair.
MaxSeal == 2

(***************************************************************************)
(* Sizes.                                                                  *)
(***************************************************************************)
\* size_of::<Seq>(): Seq is a u64.
SeqSize == 8
\* base_nonce.len(): Nn of the three AEADs.
NonceSize == 12
\* The largest value of a u8.
U8Max == 255

(***************************************************************************)
(* Bytes and the u64 sequence counter.                                     *)
(***************************************************************************)
RECURSIVE XorInt(_, _)
\* The bitwise XOR of two naturals.
XorInt(a, b) ==
    IF a = 0 THEN b
    ELSE IF b = 0 THEN a
    ELSE (((a % 2) + (b % 2)) % 2) + 2 * XorInt(a \div 2, b \div 2)

\* The XOR of two bytes.
XorTable == [a \in 0..U8Max |-> [b \in 0..U8Max |-> XorInt(a, b)]]
XorByte(a, b) == XorTable[a][b]

\* A byte string of n equal bytes.
Fill(n, v) == [i \in 1..n |-> v]

\* u64::MAX as its 8 big-endian bytes.
U64Max == Fill(SeqSize, U8Max)

\* <Seq as Default>::default(): 0u64.
SeqDefault == Fill(SeqSize, 0)

RECURSIVE AddOne(_)
\* A big-endian byte string plus one, wrapping to zero when every byte is 255.
AddOne(b) ==
    IF Len(b) = 0 THEN b
    ELSE IF b[Len(b)] < U8Max
         THEN [b EXCEPT ![Len(b)] = @ + 1]
         ELSE Append(AddOne(SubSeq(b, 1, Len(b) - 1)), 0)

RECURSIVE SubOne(_)
\* A big-endian byte string minus one (of a non-zero value).
SubOne(b) ==
    IF Len(b) = 0 THEN b
    ELSE IF b[Len(b)] > 0
         THEN [b EXCEPT ![Len(b)] = @ - 1]
         ELSE Append(SubOne(SubSeq(b, 1, Len(b) - 1)), U8Max)

\* increment_seq, were the addition to wrap around instead of being checked.
increment_seq_wrapping(seq) == [some |-> TRUE, val |-> AddOne(seq)]

\* increment_seq, were it to refuse one value early (seq >= MAX - 1).
increment_seq_early(seq) ==
    IF seq = U64Max \/ seq = SubOne(U64Max)
    THEN [some |-> FALSE, val |-> seq]
    ELSE [some |-> TRUE, val |-> AddOne(seq)]

\* increment_seq: seq.0.checked_add(1).map(Seq). None on overflow.
increment_seq(seq) ==
    IF seq = U64Max
    THEN [some |-> FALSE, val |-> seq]
    ELSE [some |-> TRUE, val |-> AddOne(seq)]

(***************************************************************************)
(* A nonce is [base, x]: the byte string `base` XOR the bytes x, byte by   *)
(* byte. A nonce given in full has the base ZeroB (all zeros); a nonce     *)
(* that is KDF output has that output's term as base and x all zero.       *)
(***************************************************************************)
ZeroB == <<"zero">>

Concrete(bytes) == [base |-> ZeroB, x |-> bytes]

\* The counter's buffer, were the counter written into its leading bytes.
seq_buf_leading(nonce_size, seq) ==
    [i \in 1..nonce_size |-> IF i <= SeqSize THEN seq[i] ELSE 0]

\* BigEndian::write_u64(&mut seq_buf[nonce_size - seq_size..], seq.0) into a zeroed buffer.
seq_buf(nonce_size, seq) ==
    [i \in 1..nonce_size |->
        IF i > nonce_size - SeqSize THEN seq[i - (nonce_size - SeqSize)] ELSE 0]

\* mix_nonce, were the counter left out of the nonce.
mix_nonce_fixed(base_nonce, seq) == base_nonce

\* mix_nonce: base_nonce XOR the big-endian counter, byte by byte.
mix_nonce(base_nonce, seq) ==
    LET nonce_size == Len(base_nonce.x)
        buf == seq_buf(nonce_size, seq)
    IN [base_nonce EXCEPT !.x = [i \in 1..nonce_size |-> XorByte(base_nonce.x[i], buf[i])]]

(***************************************************************************)
(* Ciphersuites.                                                           *)
(***************************************************************************)
\* Aead::AEAD_ID of the three AEADs.
AEAD_ID(a) ==
    CASE a = "AesGcm128" -> 1
      [] a = "AesGcm256" -> 2
      [] a = "ChaCha20Poly1305" -> 3

\* The KDF's algorithm identifier.
KDF_ID(k) ==
    CASE k = "HkdfSha256" -> 1
      [] k = "HkdfSha384" -> 2
      [] k = "HkdfSha512" -> 3

\* The KEM's algorithm identifier.
KEM_ID(k) ==
    CASE k = "DhP256HkdfSha256" -> 16
      [] k = "X25519HkdfSha256" -> 32

\* Nh: the digest size of the KDF's hash function.
Nh(k) ==
    CASE k = "HkdfSha256" -> 32
      [] k = "HkdfSha384" -> 48
      [] k = "HkdfSha512" -> 64

\* The key exchange a KEM is built over (Kem::Kex).
KexOf(kem) == IF kem = "DhP256HkdfSha256" THEN "DhP256" ELSE "X25519"

\* full_suite_id::<A, Kdf, Kem>(): "HPKE" || KEM_ID || KDF_ID || AEAD_ID.
full_suite_id(st) == <<"HPKE", KEM_ID(st.kem), KDF_ID(st.kdf), AEAD_ID(st.aead)>>

\* kem_suite_id: "KEM" || KEM_ID.
kem_suite_id(kem) == <<"KEM", KEM_ID(kem)>>

\* The ciphersuites the contexts are instantiated with.
Suites ==
    { [aead |-> "ChaCha20Poly1305", kdf |-> "HkdfSha256", kem |-> "X25519HkdfSha256"],
      [aead |-> "AesGcm128", kdf |-> "HkdfSha512", kem |-> "DhP256HkdfSha256"] }

(***************************************************************************)
(* Labeled HKDF, as an ideal function: the output is the term of its       *)
(* inputs.                                                                 *)
(***************************************************************************)
\* A caller's byte string.
Str(x) == <<"str", x>>

\* The empty byte string, &[].
Empty == Str("")

\* labeled_extract::<Kdf>(salt, suite_id, label, ikm): the PRK (also the HKDF context keyed with it).
labeled_extract(salt, suite_id, label, ikm) == <<"prk", salt, suite_id, label, ikm>>

\* The most bytes HKDF-Expand gives: 255 times the digest size.
MaxExpand(kdf) == 255 * Nh(kdf)

\* labeled_expand(prk, suite_id, label, info, out_buf) with out_buf.len() = L:
\* Err(InvalidLength) iff L > 255 * Nh, and else out_buf filled with the output.
labeled_expand(kdf, prk, suite_id, label, info, L) ==
    IF L > MaxExpand(kdf)
    THEN [ok |-> FALSE, out |-> <<"unfilled">>]
    ELSE [ok |-> TRUE, out |-> <<"okm", prk, suite_id, label, info, L>>]

\* The n bytes of a KDF output, as a nonce.
OkmBytes(okm, n) == [base |-> okm, x |-> Fill(n, 0)]

(***************************************************************************)
(* The AEAD (AeadInPlace of the aes-gcm / chacha20poly1305 crates), as an  *)
(* ideal cipher: a ciphertext and a tag are the terms of what they were    *)
(* computed from, so a tag verifies only under the key, nonce, aad and     *)
(* ciphertext it was made for.                                             *)
(***************************************************************************)
\* A plaintext longer than the AEAD accepts.
Oversize == <<"msg", "oversize">>

\* What a buffer holds after a failed in-place operation clobbered it.
Garbage == <<"garbage">>

\* encrypt_in_place_detached(nonce, aad, buffer): Err for a buffer the cipher cannot take.
encrypt_in_place_detached(key, nonce, aad, buffer) ==
    IF buffer = Oversize
    THEN [ok |-> FALSE, buf |-> buffer, tag |-> <<"notag">>]
    ELSE LET ct == <<"ct", key, nonce, buffer>>
         IN [ok |-> TRUE, buf |-> ct, tag |-> <<"tag", key, nonce, aad, ct>>]

\* The keystream of (key, nonce) applied to a buffer.
Decipher(key, nonce, buffer) ==
    IF Len(buffer) = 4 /\ buffer[1] = "ct" /\ buffer = <<"ct", key, nonce, buffer[4]>>
    THEN buffer[4]
    ELSE <<"dec", key, nonce, buffer>>

\* decrypt_in_place_detached, were a tag made under any nonce to verify.
decrypt_in_place_detached_anynonce(key, nonce, aad, buffer, tag) ==
    IF Len(tag) = 5 /\ tag = <<"tag", key, tag[3], aad, buffer>>
    THEN [ok |-> TRUE, buf |-> Decipher(key, tag[3], buffer)]
    ELSE [ok |-> FALSE, buf |-> buffer]

\* decrypt_in_place_detached(nonce, aad, buffer, tag): Err iff the tag does not verify.
decrypt_in_place_detached(key, nonce, aad, buffer, tag) ==
    IF tag = <<"tag", key, nonce, aad, buffer>>
    THEN [ok |-> TRUE, buf |-> Decipher(key, nonce, buffer)]
    ELSE [ok |-> FALSE, buf |-> buffer]

(***************************************************************************)
(* AeadCtx.                                                                *)
(***************************************************************************)
\* AeadCtx::new, were the sequence number to start at one.
AeadCtxNew_started(st, key, nonce, exporter_secret) ==
    [ overflowed      |-> FALSE,
      encryptor       |-> key,
      nonce           |-> nonce,
      exporter_secret |-> exporter_secret,
      seq             |-> <<0, 0, 0, 0, 0, 0, 0, 1>>,
      suite_id        |-> full_suite_id(st) ]

\* AeadCtx::new(key, nonce, exporter_secret).
AeadCtxNew(st, key, nonce, exporter_secret) ==
    [ overflowed      |-> FALSE,
      encryptor       |-> key,
      nonce           |-> nonce,
      exporter_secret |-> exporter_secret,
      seq             |-> SeqDefault,
      suite_id        |-> full_suite_id(st) ]

\* export, were the output to depend on the sequence number.
export_seq(kdf, ctx, exporter_ctx, L) ==
    LET r == labeled_expand(kdf, ctx.exporter_secret, ctx.suite_id, "sec",
                            <<"cat", exporter_ctx, ctx.seq>>, L)
    IN [res |-> IF r.ok THEN "Ok" ELSE "InvalidKdfLength", out |-> r.out, ctx |-> ctx]

\* export, were the length error swallowed.
export_nocheck(kdf, ctx, exporter_ctx, L) ==
    LET r == labeled_expand(kdf, ctx.exporter_secret, ctx.suite_id, "sec", exporter_ctx, L)
    IN [res |-> "Ok", out |-> r.out, ctx |-> ctx]

\* AeadCtx::export(&self, exporter_ctx, out_buf) with out_buf.len() = L.
export(kdf, ctx, exporter_ctx, L) ==
    LET r == labeled_expand(kdf, ctx.exporter_secret, ctx.suite_id, "sec", exporter_ctx, L)
    IN [res |-> IF r.ok THEN "Ok" ELSE "InvalidKdfLength", out |-> r.out, ctx |-> ctx]

\* The update after a success, were the counter to wrap to zero when it overflows.
Advance_wrapped(ctx) ==
    LET inc == increment_seq(ctx.seq)
    IN IF inc.some
       THEN [ctx EXCEPT !.seq = inc.val]
       ELSE [ctx EXCEPT !.overflowed = TRUE, !.seq = SeqDefault]

\* The context after a successful seal or open: the counter advanced, or overflowed set.
Advance(ctx) ==
    LET inc == increment_seq(ctx.seq)
    IN IF inc.some THEN [ctx EXCEPT !.seq = inc.val] ELSE [ctx EXCEPT !.overflowed = TRUE]

\* seal, were the counter advanced before the error check.
seal_eager(ctx, plaintext, aad, junk) ==
    IF ctx.overflowed
    THEN [res |-> "SeqOverflow", ctx |-> ctx, buf |-> plaintext, tag |-> <<"notag">>, called |-> FALSE]
    ELSE LET nonce == mix_nonce(ctx.nonce, ctx.seq)
             tag_res == encrypt_in_place_detached(ctx.encryptor, nonce, aad, plaintext)
         IN IF ~tag_res.ok
            THEN [res |-> "Encryption", ctx |-> Advance(ctx), buf |-> junk, tag |-> <<"notag">>, called |-> TRUE]
            ELSE [res |-> "Ok", ctx |-> Advance(ctx), buf |-> tag_res.buf, tag |-> tag_res.tag, called |-> TRUE]

\* seal, were the overflowed flag not looked at.
seal_noflag(ctx, plaintext, aad, junk) ==
    LET nonce == mix_nonce(ctx.nonce, ctx.seq)
        tag_res == encrypt_in_place_detached(ctx.encryptor, nonce, aad, plaintext)
    IN IF ~tag_res.ok
       THEN [res |-> "Encryption", ctx |-> ctx, buf |-> junk, tag |-> <<"notag">>, called |-> TRUE]
       ELSE [res |-> "Ok", ctx |-> Advance(ctx), buf |-> tag_res.buf, tag |-> tag_res.tag, called |-> TRUE]

\* seal, were the nonce of the message stored back as the context's nonce.
seal_renonced(ctx, plaintext, aad, junk) ==
    IF ctx.overflowed
    THEN [res |-> "SeqOverflow", ctx |-> ctx, buf |-> plaintext, tag |-> <<"notag">>, called |-> FALSE]
    ELSE LET nonce == mix_nonce(ctx.nonce, ctx.seq)
             tag_res == encrypt_in_place_detached(ctx.encryptor, nonce, aad, plaintext)
         IN IF ~tag_res.ok
            THEN [res |-> "Encryption", ctx |-> ctx, buf |-> junk, tag |-> <<"notag">>, called |-> TRUE]
            ELSE [res |-> "Ok", ctx |-> [Advance(ctx) EXCEPT !.nonce = nonce],
                  buf |-> tag_res.buf, tag |-> tag_res.tag, called |-> TRUE]

\* AeadCtxS::seal(&mut self, plaintext, aad). junk: what a failed encryption leaves in the buffer.
seal(ctx, plaintext, aad, junk) ==
    IF ctx.overflowed
    THEN [res |-> "SeqOverflow", ctx |-> ctx, buf |-> plaintext, tag |-> <<"notag">>, called |-> FALSE]
    ELSE LET nonce == mix_nonce(ctx.nonce, ctx.seq)
             tag_res == encrypt_in_place_detached(ctx.encryptor, nonce, aad, plaintext)
         IN IF ~tag_res.ok
            THEN [res |-> "Encryption", ctx |-> ctx, buf |-> junk, tag |-> <<"notag">>, called |-> TRUE]
            ELSE [res |-> "Ok", ctx |-> Advance(ctx), buf |-> tag_res.buf, tag |-> tag_res.tag, called |-> TRUE]

\* open, were the counter not advanced after a success.
open_stuck(ctx, ciphertext, aad, tag, junk) ==
    IF ctx.overflowed
    THEN [res |-> "SeqOverflow", ctx |-> ctx, buf |-> ciphertext, called |-> FALSE]
    ELSE LET nonce == mix_nonce(ctx.nonce, ctx.seq)
             decrypt_res == decrypt_in_place_detached(ctx.encryptor, nonce, aad, ciphertext, tag)
         IN IF ~decrypt_res.ok
            THEN [res |-> "InvalidTag", ctx |-> ctx, buf |-> junk, called |-> TRUE]
            ELSE [res |-> "Ok", ctx |-> ctx, buf |-> decrypt_res.buf, called |-> TRUE]

\* open, were the counter advanced on a failed tag check too.
open_eager(ctx, ciphertext, aad, tag, junk) ==
    IF ctx.overflowed
    THEN [res |-> "SeqOverflow", ctx |-> ctx, buf |-> ciphertext, called |-> FALSE]
    ELSE LET nonce == mix_nonce(ctx.nonce, ctx.seq)
             decrypt_res == decrypt_in_place_detached(ctx.encryptor, nonce, aad, ciphertext, tag)
         IN IF ~decrypt_res.ok
            THEN [res |-> "InvalidTag", ctx |-> Advance(ctx), buf |-> junk, called |-> TRUE]
            ELSE [res |-> "Ok", ctx |-> Advance(ctx), buf |-> decrypt_res.buf, called |-> TRUE]

\* open, were the tag checked before the overflow flag.
open_tagfirst(ctx, ciphertext, aad, tag, junk) ==
    LET nonce == mix_nonce(ctx.nonce, ctx.seq)
        decrypt_res == decrypt_in_place_detached(ctx.encryptor, nonce, aad, ciphertext, tag)
    IN IF ~decrypt_res.ok
       THEN [res |-> "InvalidTag", ctx |-> ctx, buf |-> junk, called |-> TRUE]
       ELSE IF ctx.overflowed
       THEN [res |-> "SeqOverflow", ctx |-> ctx, buf |-> ciphertext, called |-> TRUE]
       ELSE [res |-> "Ok", ctx |-> Advance(ctx), buf |-> decrypt_res.buf, called |-> TRUE]

\* AeadCtxR::open(&mut self, ciphertext, aad, tag). junk: what a failed decryption leaves in the buffer.
open(ctx, ciphertext, aad, tag, junk) ==
    IF ctx.overflowed
    THEN [res |-> "SeqOverflow", ctx |-> ctx, buf |-> ciphertext, called |-> FALSE]
    ELSE LET nonce == mix_nonce(ctx.nonce, ctx.seq)
             decrypt_res == decrypt_in_place_detached(ctx.encryptor, nonce, aad, ciphertext, tag)
         IN IF ~decrypt_res.ok
            THEN [res |-> "InvalidTag", ctx |-> ctx, buf |-> junk, called |-> TRUE]
            ELSE [res |-> "Ok", ctx |-> Advance(ctx), buf |-> decrypt_res.buf, called |-> TRUE]

(***************************************************************************)
(* Key exchange. The groups are small stand-ins with the structure the     *)
(* code relies on. P-256: a group of prime order P256Order, written        *)
(* additively as the integers mod P256Order, 0 the point at infinity and   *)
(* 1 the generator; p and -p share their x-coordinate. X25519: a group of  *)
(* order Cofactor * SubgroupOrder, the base point of order SubgroupOrder;  *)
(* a secret is clamped to a multiple of the cofactor before use.           *)
(***************************************************************************)
P256Order == 5
Cofactor == 2
SubgroupOrder == 5

X25519Order == Cofactor * SubgroupOrder

\* The X25519 base point: an element of order SubgroupOrder.
X25519Base == Cofactor

\* Clamping of a secret: the low bits cleared (a multiple of the cofactor), the top bit set.
Clamp(s) == (Cofactor * Cofactor) + Cofactor * ((s % (Cofactor * Cofactor)) \div Cofactor)

\* DhP256::sk_to_pk: generator * sk, and to_affine().unwrap().
DhP256_sk_to_pk(sk) ==
    LET pk == (1 * sk) % P256Order
    IN IF pk = 0 THEN [res |-> "panic", val |-> 0] ELSE [res |-> "Ok", val |-> pk]

\* DhP256::kex: pk * sk, and to_affine().unwrap().
DhP256_kex(sk, pk) ==
    LET dh_res_proj == (pk * sk) % P256Order
    IN IF dh_res_proj = 0 THEN [res |-> "panic", val |-> 0] ELSE [res |-> "Ok", val |-> dh_res_proj]

\* KexResult::to_bytes of P-256: the x-coordinate alone.
DhP256_kex_to_bytes(p) == <<"dh", IF p <= P256Order - p THEN p ELSE P256Order - p>>

\* X25519::sk_to_pk: x25519_dalek::PublicKey::from(&sk).
X25519_sk_to_pk(sk) == [res |-> "Ok", val |-> (Clamp(sk) * X25519Base) % X25519Order]

\* X25519::kex, were the all-zero result not looked for.
X25519_kex_nozero(sk, pk) == [res |-> "Ok", val |-> (Clamp(sk) * pk) % X25519Order]

\* X25519::kex: sk.diffie_hellman(pk), InvalidKeyExchange iff the result is all zeros.
X25519_kex(sk, pk) ==
    LET res == (Clamp(sk) * pk) % X25519Order
    IN IF res = 0 THEN [res |-> "InvalidKeyExchange", val |-> 0] ELSE [res |-> "Ok", val |-> res]

\* KexResult::to_bytes of X25519: the shared secret's bytes.
X25519_kex_to_bytes(v) == <<"dh", v>>

\* KeyExchange::sk_to_pk of the key exchange kx.
sk_to_pk(kx, sk) == IF kx = "DhP256" THEN DhP256_sk_to_pk(sk) ELSE X25519_sk_to_pk(sk)

\* KeyExchange::kex of the key exchange kx.
kex(kx, sk, pk) == IF kx = "DhP256" THEN DhP256_kex(sk, pk) ELSE X25519_kex(sk, pk)

\* Serializable::to_bytes of a KexResult.
kex_to_bytes(kx, v) == IF kx = "DhP256" THEN DhP256_kex_to_bytes(v) ELSE X25519_kex_to_bytes(v)

\* Serializable::to_bytes of a PublicKey.
pk_to_bytes(kx, pk) == <<"pk", kx, pk>>

\* The private keys gen_keypair / derive_keypair can return.
PrivateKeys(kx) == IF kx = "DhP256" THEN 1..(P256Order - 1) ELSE 0..(Cofactor * Cofactor - 1)

\* The public key values a PublicKey can hold.
PublicKeys(kx) == IF kx = "DhP256" THEN 1..(P256Order - 1) ELSE 0..(X25519Order - 1)

(***************************************************************************)
(* Serialization. A byte string given to from_bytes is [len, val]: its     *)
(* length and what the bytes hold. For a P-256 public key val is           *)
(* <<"sec1", t, p>>: the leading byte t (4 for the uncompressed form) and  *)
(* the coordinates, standing for the point p when p is in 1..P256Order - 1 *)
(* and for no point of the curve otherwise (0: all-zero coordinates). For  *)
(* a scalar val is <<"int", v>>, the big-endian number v; the numbers of   *)
(* the P-256 scalar's width go up to P256Wide - 1, less than twice the     *)
(* group order as 2^256 is. For an X25519 public key val is <<"u", v>>.    *)
(***************************************************************************)
Bytes(len, val) == [len |-> len, val |-> val]

\* The sizes Serializable::size() gives.
PublicKeySize(kx) == IF kx = "DhP256" THEN 65 ELSE 32
PrivateKeySize(kx) == IF kx = "DhP256" THEN 32 ELSE 32
TagSize(a) == IF a = "ChaCha20Poly1305" THEN 16 ELSE 16

\* The leading byte of an uncompressed SEC-1 point, and of a compressed one.
Sec1Uncompressed == 4
Sec1Compressed == 2

\* One more than the largest number the 32 bytes of a P-256 scalar hold.
P256Wide == P256Order + 3

InvalidEncoding(none) == [res |-> "InvalidEncoding", val |-> none]

\* PublicKey::to_bytes of P-256, were the point written in compressed form.
DhP256_PublicKey_to_bytes_compressed(pk) ==
    Bytes(PublicKeySize("DhP256") - 32, <<"sec1", Sec1Compressed, pk>>)

\* PublicKey::to_bytes of P-256: to_pubkey(false), the uncompressed form.
DhP256_PublicKey_to_bytes(pk) ==
    Bytes(PublicKeySize("DhP256"), <<"sec1", Sec1Uncompressed, pk>>)

\* PublicKey::from_bytes of P-256, were the point not checked to be on the curve.
DhP256_PublicKey_from_bytes_nocurve(encoded) ==
    IF encoded.len # PublicKeySize("DhP256")
    THEN InvalidEncoding(0)
    ELSE IF encoded.val[2] # Sec1Uncompressed
    THEN InvalidEncoding(0)
    ELSE [res |-> "Ok", val |-> encoded.val[3]]

\* PublicKey::from_bytes of P-256 (from_bytes_helper): the length, the form, and whether
\* the coordinates are a point of the curve other than the point at infinity.
DhP256_PublicKey_from_bytes(encoded) ==
    IF encoded.len # PublicKeySize("DhP256")
    THEN InvalidEncoding(0)
    ELSE IF encoded.val[2] # Sec1Uncompressed
    THEN InvalidEncoding(0)
    ELSE IF encoded.val[3] \in 1..(P256Order - 1)
    THEN [res |-> "Ok", val |-> encoded.val[3]]
    ELSE InvalidEncoding(0)

\* PrivateKey::to_bytes of P-256: the scalar's bytes.
DhP256_PrivateKey_to_bytes(sk) == Bytes(PrivateKeySize("DhP256"), <<"int", sk>>)

\* PrivateKey::from_bytes of P-256, were zero not refused.
DhP256_PrivateKey_from_bytes_keepzero(encoded) ==
    IF encoded.len # PrivateKeySize("DhP256")
    THEN InvalidEncoding(0)
    ELSE [res |-> "Ok", val |-> encoded.val[2] % P256Order]

\* PrivateKey::from_bytes of P-256: Scalar::from_bytes_reduced, and zero refused.
DhP256_PrivateKey_from_bytes(encoded) ==
    IF encoded.len # PrivateKeySize("DhP256")
    THEN InvalidEncoding(0)
    ELSE LET scalar == encoded.val[2] % P256Order
         IN IF scalar = 0 THEN InvalidEncoding(0) ELSE [res |-> "Ok", val |-> scalar]

\* PublicKey::to_bytes of X25519.
X25519_PublicKey_to_bytes(pk) == Bytes(PublicKeySize("X25519"), <<"u", pk>>)

\* PublicKey::from_bytes of X25519, were the length not looked at.
X25519_PublicKey_from_bytes_anylen(encoded) == [res |-> "Ok", val |-> encoded.val[2]]

\* PublicKey::from_bytes of X25519: any 32 bytes.
X25519_PublicKey_from_bytes(encoded) ==
    IF encoded.len # PublicKeySize("X25519")
    THEN InvalidEncoding(0)
    ELSE [res |-> "Ok", val |-> encoded.val[2]]

\* PrivateKey::to_bytes of X25519.
X25519_PrivateKey_to_bytes(sk) == Bytes(PrivateKeySize("X25519"), <<"int", sk>>)

\* PrivateKey::from_bytes of X25519: any 32 bytes (clamped when used as a scalar).
X25519_PrivateKey_from_bytes(encoded) ==
    IF encoded.len # PrivateKeySize("X25519")
    THEN InvalidEncoding(0)
    ELSE [res |-> "Ok", val |-> encoded.val[2]]

\* Serializable / Deserializable of the key exchange kx.
PublicKey_to_bytes(kx, pk) ==
    IF kx = "DhP256" THEN DhP256_PublicKey_to_bytes(pk) ELSE X25519_PublicKey_to_bytes(pk)
PublicKey_from_bytes(kx, encoded) ==
    IF kx = "DhP256" THEN DhP256_PublicKey_from_bytes(encoded)
    ELSE X25519_PublicKey_from_bytes(encoded)
PrivateKey_to_bytes(kx, sk) ==
    IF kx = "DhP256" THEN DhP256_PrivateKey_to_bytes(sk) ELSE X25519_PrivateKey_to_bytes(sk)
PrivateKey_from_bytes(kx, encoded) ==
    IF kx = "DhP256" THEN DhP256_PrivateKey_from_bytes(encoded)
    ELSE X25519_PrivateKey_from_bytes(encoded)

\* AeadTag::to_bytes.
AeadTag_to_bytes(a, tag) == Bytes(TagSize(a), tag)

\* AeadTag::from_bytes: any bytes of the tag's size.
AeadTag_from_bytes(a, encoded) ==
    IF encoded.len # TagSize(a)
    THEN InvalidEncoding(<<"notag">>)
    ELSE [res |-> "Ok", val |-> encoded.val]

(***************************************************************************)
(* derive_keypair. The bytes the KDF gives for an ikm are any bytes: cand  *)
(* is the candidate of each counter, the first ones listed in prefix and   *)
(* all later ones equal to tail.                                           *)
(***************************************************************************)
Candidate(cand, counter) ==
    IF counter < Len(cand.prefix) THEN cand.prefix[counter + 1] ELSE cand.tail

\* The counters of the loop of DhP256::derive_keypair whose candidate Scalar::from_bytes
\* takes: the candidate is below the group order.
TakenCounters(cand) == { counter \in 0..U8Max : Candidate(cand, counter) < P256Order }

\* DhP256::derive_keypair(suite_id, ikm): the candidate of the first counter that is taken
\* and its public key, and the panic after the last counter when none is.
\* expansions counts the calls of labeled_expand the loop made.
DhP256_derive_keypair(cand) ==
    IF TakenCounters(cand) = {}
    THEN [res |-> "panic", sk |-> 0, pk |-> 0, expansions |-> U8Max + 1]
    ELSE LET counter == CHOOSE c \in TakenCounters(cand) : \A d \in TakenCounters(cand) : c <= d
             buf == Candidate(cand, counter)
         IN [res |-> DhP256_sk_to_pk(buf).res, sk |-> buf, pk |-> DhP256_sk_to_pk(buf).val,
             expansions |-> counter + 1]

\* X25519::derive_keypair(suite_id, ikm): the 32 bytes as they come, and their public key.
X25519_derive_keypair(cand) ==
    LET buf == Candidate(cand, 0)
    IN [res |-> "Ok", sk |-> buf, pk |-> X25519_sk_to_pk(buf).val, expansions |-> 1]

derive_keypair(kx, cand) ==
    IF kx = "DhP256" THEN DhP256_derive_keypair(cand) ELSE X25519_derive_keypair(cand)

(***************************************************************************)
(* Operation modes. A mode is [kind, bundle, id]; a variant without a PSK  *)
(* bundle or without an identity key holds Absent there.                   *)
(***************************************************************************)
Absent == <<"absent">>

NoBundle == [psk |-> Absent, psk_id |-> Absent]

\* OpModeR::get_pk_sender_id, were the key of AuthPsk not returned.
get_pk_sender_id_authonly(mode) ==
    CASE mode.kind = "Auth" -> [some |-> TRUE, val |-> mode.id]
      [] OTHER -> [some |-> FALSE, val |-> mode.id]

\* OpModeR::get_pk_sender_id.
get_pk_sender_id(mode) ==
    CASE mode.kind = "Auth" -> [some |-> TRUE, val |-> mode.id]
      [] mode.kind = "AuthPsk" -> [some |-> TRUE, val |-> mode.id]
      [] OTHER -> [some |-> FALSE, val |-> mode.id]

\* OpModeS::get_sender_id_keypair.
get_sender_id_keypair(mode) ==
    CASE mode.kind = "Auth" -> [some |-> TRUE, val |-> mode.id]
      [] mode.kind = "AuthPsk" -> [some |-> TRUE, val |-> mode.id]
      [] OTHER -> [some |-> FALSE, val |-> mode.id]

\* OpMode::mode_id for OpModeR.
OpModeR_mode_id(mode) ==
    CASE mode.kind = "Base" -> 0
      [] mode.kind = "Psk" -> 1
      [] mode.kind = "Auth" -> 2
      [] mode.kind = "AuthPsk" -> 3

\* OpModeR::get_psk_bytes, were the PSK dropped in AuthPsk.
OpModeR_get_psk_bytes_drop(mode) ==
    CASE mode.kind = "Psk" -> mode.bundle.psk
      [] OTHER -> Empty

\* OpMode::get_psk_bytes for OpModeR.
OpModeR_get_psk_bytes(mode) ==
    CASE mode.kind = "Psk" -> mode.bundle.psk
      [] mode.kind = "AuthPsk" -> mode.bundle.psk
      [] OTHER -> Empty

\* OpModeR::get_psk_id, were it to return the default for every variant.
OpModeR_get_psk_id_default(mode) == Empty

\* OpMode::get_psk_id for OpModeR.
OpModeR_get_psk_id(mode) ==
    CASE mode.kind = "Psk" -> mode.bundle.psk_id
      [] mode.kind = "AuthPsk" -> mode.bundle.psk_id
      [] OTHER -> Empty

\* OpModeS::mode_id, were the ids of Auth and AuthPsk exchanged.
OpModeS_mode_id_exchanged(mode) ==
    CASE mode.kind = "Base" -> 0
      [] mode.kind = "Psk" -> 1
      [] mode.kind = "Auth" -> 3
      [] mode.kind = "AuthPsk" -> 2

\* OpMode::mode_id for OpModeS.
OpModeS_mode_id(mode) ==
    CASE mode.kind = "Base" -> 0
      [] mode.kind = "Psk" -> 1
      [] mode.kind = "Auth" -> 2
      [] mode.kind = "AuthPsk" -> 3

\* OpModeS::get_psk_bytes, were the PSK id returned in place of the PSK.
OpModeS_get_psk_bytes_id(mode) ==
    CASE mode.kind = "Psk" -> mode.bundle.psk_id
      [] mode.kind = "AuthPsk" -> mode.bundle.psk_id
      [] OTHER -> Empty

\* OpMode::get_psk_bytes for OpModeS.
OpModeS_get_psk_bytes(mode) ==
    CASE mode.kind = "Psk" -> mode.bundle.psk
      [] mode.kind = "AuthPsk" -> mode.bundle.psk
      [] OTHER -> Empty

\* OpMode::get_psk_id for OpModeS.
OpModeS_get_psk_id(mode) ==
    CASE mode.kind = "Psk" -> mode.bundle.psk_id
      [] mode.kind = "AuthPsk" -> mode.bundle.psk_id
      [] OTHER -> Empty

\* mode_id, were it the same byte for every variant.
mode_id_same(side, mode) == 0

\* The OpMode trait's methods, dispatched on the implementing type.
mode_id(side, mode) == IF side = "S" THEN OpModeS_mode_id(mode) ELSE OpModeR_mode_id(mode)
get_psk_bytes(side, mode) ==
    IF side = "S" THEN OpModeS_get_psk_bytes(mode) ELSE OpModeR_get_psk_bytes(mode)
get_psk_id(side, mode) ==
    IF side = "S" THEN OpModeS_get_psk_id(mode) ELSE OpModeR_get_psk_id(mode)

(***************************************************************************)
(* The KEM: encap and decap.                                               *)
(***************************************************************************)
\* The KEM's own KDF (HKDF-SHA256 for both KEMs).
KemKdf == "HkdfSha256"

\* extract_and_expand: the shared secret from the DH outputs and the KEM context.
extract_and_expand(kem, dh, kem_context) ==
    LET prk == labeled_extract(Empty, kem_suite_id(kem), "eae_prk", dh)
    IN labeled_expand(KemKdf, prk, kem_suite_id(kem), "shared_secret", kem_context, Nh(KemKdf)).out

\* kem::encap(pk_recip, sender_id_keypair, csprng). sk_e: the ephemeral key the csprng gives.
encap(kem, pk_recip, sender_id_keypair, sk_e) ==
    LET kx == KexOf(kem)
        pk_e == sk_to_pk(kx, sk_e).val
        dh1 == kex(kx, sk_e, pk_recip)
        dh2 == kex(kx, sender_id_keypair.val[1], pk_recip)
        res == IF dh1.res # "Ok" THEN dh1.res
               ELSE IF sender_id_keypair.some /\ dh2.res # "Ok" THEN dh2.res
               ELSE "Ok"
        dh == IF sender_id_keypair.some
              THEN <<"cat", kex_to_bytes(kx, dh1.val), kex_to_bytes(kx, dh2.val)>>
              ELSE kex_to_bytes(kx, dh1.val)
        kem_context ==
            IF sender_id_keypair.some
            THEN <<"cat", pk_to_bytes(kx, pk_e), pk_to_bytes(kx, pk_recip),
                   pk_to_bytes(kx, sender_id_keypair.val[2])>>
            ELSE <<"cat", pk_to_bytes(kx, pk_e), pk_to_bytes(kx, pk_recip)>>
    IN [res |-> res,
        shared_secret |-> IF res = "Ok" THEN extract_and_expand(kem, dh, kem_context) ELSE Absent,
        encapped_key |-> pk_e]

\* kem::decap(sk_recip, pk_sender_id, encapped_key).
decap(kem, sk_recip, pk_sender_id, encapped_key) ==
    LET kx == KexOf(kem)
        pk_recip == sk_to_pk(kx, sk_recip).val
        dh1 == kex(kx, sk_recip, encapped_key)
        dh2 == kex(kx, sk_recip, pk_sender_id.val)
        res == IF dh1.res # "Ok" THEN dh1.res
               ELSE IF pk_sender_id.some /\ dh2.res # "Ok" THEN dh2.res
               ELSE "Ok"
        dh == IF pk_sender_id.some
              THEN <<"cat", kex_to_bytes(kx, dh1.val), kex_to_bytes(kx, dh2.val)>>
              ELSE kex_to_bytes(kx, dh1.val)
        kem_context ==
            IF pk_sender_id.some
            THEN <<"cat", pk_to_bytes(kx, encapped_key), pk_to_bytes(kx, pk_recip),
                   pk_to_bytes(kx, pk_sender_id.val)>>
            ELSE <<"cat", pk_to_bytes(kx, encapped_key), pk_to_bytes(kx, pk_recip)>>
    IN [res |-> res,
        shared_secret |-> IF res = "Ok" THEN extract_and_expand(kem, dh, kem_context) ELSE Absent]

(***************************************************************************)
(* The key schedule and the setup functions.                               *)
(***************************************************************************)
\* AeadKey<A>'s length, Nk.
Nk(a) == IF a = "AesGcm128" THEN 16 ELSE 32

\* derive_enc_ctx, were the info string left out of the schedule context.
derive_enc_ctx_noinfo(st, side, mode, shared_secret, info) ==
    LET suite_id == full_suite_id(st)
        psk_id_hash == labeled_extract(Empty, suite_id, "psk_id_hash", get_psk_id(side, mode))
        info_hash == labeled_extract(Empty, suite_id, "info_hash", Empty)
        sched_context == <<"cat", <<"u8", mode_id(side, mode)>>, psk_id_hash, info_hash>>
        extracted_psk == labeled_extract(Empty, suite_id, "psk_hash", get_psk_bytes(side, mode))
        secret_ctx == labeled_extract(extracted_psk, suite_id, "secret", shared_secret)
        key == labeled_expand(st.kdf, secret_ctx, suite_id, "key", sched_context, Nk(st.aead)).out
        nonce == labeled_expand(st.kdf, secret_ctx, suite_id, "nonce", sched_context, NonceSize).out
        exporter_secret ==
            labeled_expand(st.kdf, secret_ctx, suite_id, "exp", sched_context, Nh(st.kdf)).out
    IN AeadCtxNew(st, key, OkmBytes(nonce, NonceSize), exporter_secret)

\* derive_enc_ctx(mode, shared_secret, info): the KeySchedule function.
derive_enc_ctx(st, side, mode, shared_secret, info) ==
    LET suite_id == full_suite_id(st)
        psk_id_hash == labeled_extract(Empty, suite_id, "psk_id_hash", get_psk_id(side, mode))
        info_hash == labeled_extract(Empty, suite_id, "info_hash", info)
        sched_context == <<"cat", <<"u8", mode_id(side, mode)>>, psk_id_hash, info_hash>>
        extracted_psk == labeled_extract(Empty, suite_id, "psk_hash", get_psk_bytes(side, mode))
        secret_ctx == labeled_extract(extracted_psk, suite_id, "secret", shared_secret)
        key == labeled_expand(st.kdf, secret_ctx, suite_id, "key", sched_context, Nk(st.aead)).out
        nonce == labeled_expand(st.kdf, secret_ctx, suite_id, "nonce", sched_context, NonceSize).out
        exporter_secret ==
            labeled_expand(st.kdf, secret_ctx, suite_id, "exp", sched_context, Nh(st.kdf)).out
    IN AeadCtxNew(st, key, OkmBytes(nonce, NonceSize), exporter_secret)

\* derive_receiver_ctx, were the info string not passed on.
derive_receiver_ctx_noinfo(st, mode, shared_secret, info) ==
    derive_enc_ctx(st, "R", mode, shared_secret, Empty)

\* derive_receiver_ctx(mode, shared_secret, info): the receiver's context from a shared
\* secret given directly.
derive_receiver_ctx(st, mode, shared_secret, info) ==
    derive_enc_ctx(st, "R", mode, shared_secret, info)

\* setup_sender(mode, pk_recip, info, csprng).
setup_sender(st, mode, pk_recip, info, sk_e) ==
    LET sender_id_keypair == get_sender_id_keypair(mode)
        e == encap(st.kem, pk_recip, sender_id_keypair, sk_e)
    IN IF e.res # "Ok"
       THEN [res |-> e.res, encapped_key |-> e.encapped_key, ctx |-> Absent,
             shared_secret |-> Absent]
       ELSE [res |-> "Ok", encapped_key |-> e.encapped_key,
             ctx |-> derive_enc_ctx(st, "S", mode, e.shared_secret, info),
             shared_secret |-> e.shared_secret]

\* setup_receiver, were the error of decap not propagated.
setup_receiver_unchecked(st, mode, sk_recip, encapped_key, info) ==
    LET pk_sender_id == get_pk_sender_id(mode)
        d == decap(st.kem, sk_recip, pk_sender_id, encapped_key)
    IN [res |-> "Ok", ctx |-> derive_enc_ctx(st, "R", mode, d.shared_secret, info),
        shared_secret |-> d.shared_secret]

\* setup_receiver(mode, sk_recip, encapped_key, info).
setup_receiver(st, mode, sk_recip, encapped_key, info) ==
    LET pk_sender_id == get_pk_sender_id(mode)
        d == decap(st.kem, sk_recip, pk_sender_id, encapped_key)
    IN IF d.res # "Ok"
       THEN [res |-> d.res, ctx |-> Absent, shared_secret |-> Absent]
       ELSE [res |-> "Ok", ctx |-> derive_enc_ctx(st, "R", mode, d.shared_secret, info),
             shared_secret |-> d.shared_secret]

(***************************************************************************)
(* Inputs.                                                                 *)
(***************************************************************************)
\* What the csprng of gen_ctx_simple_pair fills the key, nonce and exporter secret with.
RandKeys == { <<"rand", "key">> }
RandNonces == { Concrete(<<1, 2, 3, 4, 5, 6, 7, 8, 9, 10, 11, 254>>) }
RandSecrets == { <<"rand", "exporter_secret">> }

\* Sequence numbers a context pair is moved to before use: u64::MAX and the one before it.
SeedSeqs == { U64Max, SubOne(U64Max) }

\* Plaintexts and associated data.
Msgs == { <<"msg", "m1">>, <<"msg", "m2">>, Oversize }
Aads == { Str("aad1"), Str("aad2") }

\* The not-a-ciphertext and not-a-tag of test_overflow: [0u8; 32] and the tag [0; 16].
DummyCt == <<"zeros", 32>>
DummyTag == <<"zeros", 16>>

\* Exporter contexts and output lengths.
ExporterCtxs == { Str("test_export_idempotence"), Str("other") }
Lens(kdf) == { 16, MaxExpand(kdf), MaxExpand(kdf) + 1 }

\* Info strings, PSK bundles and keys of the handshake.
SenderInfo == Str("info")
Infos == { SenderInfo, Str("something else") }
Psks == { Str("psk"), Str("bad psk"), Empty }
PskIds == { Str("psk_id"), Str("bad psk_id"), Empty }
SenderBundles ==
    { [psk |-> Str("psk"), psk_id |-> Str("psk_id")],
      [psk |-> Empty, psk_id |-> Empty],
      [psk |-> Str("psk"), psk_id |-> Empty] }
Kinds == { "Base", "Psk", "Auth", "AuthPsk" }
HasPsk(kind) == kind \in { "Psk", "AuthPsk" }
HasAuth(kind) == kind \in { "Auth", "AuthPsk" }
\* The keys gen_keypair hands out in the model.
GenKeys == { 1, 2 }
\* The sender's identity private keys.
SenderIdKeys == { 3 }
\* Points of low order, which X25519 multiplies to the all-zero result; P-256 has none.
LowOrder(kx) == IF kx = "DhP256" THEN {} ELSE { SubgroupOrder }
\* The ways the receiver's inputs can differ from the sender's: in nothing, or in one of them.
Devs == { "none", "info", "sk", "enc", "psk", "psk_id", "pk_id", "kind" }

(***************************************************************************)
(* State.                                                                  *)
(***************************************************************************)
NullCtx(st) == AeadCtxNew(st, Absent, Concrete(Fill(NonceSize, 0)), Absent)

BaseMode == [kind |-> "Base", bundle |-> NoBundle, id |-> Absent]

NoCall ==
    [ op |-> "none", res |-> "none", inBuf |-> Absent, buf |-> Absent, aad |-> Empty,
      ci |-> 0, ti |-> 0, tag |-> <<"notag">>, out |-> Absent, ectx |-> Empty, len |-> 0,
      called |-> FALSE, obj |-> <<"none">>, enc |-> Bytes(0, <<"none">>), of |-> <<"none">>,
      how |-> "none" ]

\* The sender's identity key pair in a handshake record, where the mode has none.
NoId == <<0, 0>>

NoHs ==
    [ made |-> FALSE, skR |-> 0, pkR |-> 0, sMode |-> BaseMode, sInfo |-> Empty, sId |-> NoId,
      enc |-> 0,
      ssS |-> Absent, rMode |-> BaseMode, rSk |-> 0, rEnc |-> 0, rInfo |-> Empty,
      ssR |-> Absent, dev |-> "none" ]

\* stage 0: not in the scenario. stage 1: the last call was open(c1), c1 = wire[k + 1], with
\* its own aad and tag, on a receiver at the sequence number of c0 = wire[k]; first is its
\* result. stage 2: the call after that was open(c0) with its own aad and tag.
NoReord == [stage |-> 0, k |-> 0, first |-> "none"]

\* A count of operations: 9 big-endian bytes, enough for 2^64.
Count(seq) == <<0>> \o seq
CountZero == Count(SeqDefault)

Init ==
    /\ pc = "start"
    /\ suite \in Suites
    /\ S = NullCtx(suite)
    /\ R = NullCtx(suite)
    /\ wire = <<>>
    /\ opened = <<>>
    /\ okS = CountZero
    /\ okR = CountZero
    /\ last = NoCall
    /\ strayed = FALSE
    /\ reord = NoReord
    /\ hs = NoHs

(***************************************************************************)
(* Actions on a context pair.                                              *)
(***************************************************************************)
\* gen_ctx_simple_pair: two contexts over the same random key, nonce and exporter secret.
GenCtxSimplePair ==
    /\ pc = "start"
    /\ \E key \in RandKeys, nonce \in RandNonces, exporter_secret \in RandSecrets :
          /\ S' = AeadCtxNew(suite, key, nonce, exporter_secret)
          /\ R' = AeadCtxNew(suite, key, nonce, exporter_secret)
    /\ pc' = "run"
    /\ last' = [NoCall EXCEPT !.op = "gen_ctx_simple_pair", !.res = "Ok"]
    /\ UNCHANGED <<suite, wire, opened, okS, okR, strayed, reord, hs>>

\* test_overflow's sender_ctx.0.seq = big_seq; receiver_ctx.0.seq = big_seq, right after
\* the pair is made: the pair as s seals and s opens leave it.
SeedSeq ==
    /\ pc = "run"
    /\ last.op = "gen_ctx_simple_pair"
    /\ \E s \in SeedSeqs :
          /\ S' = [S EXCEPT !.seq = s]
          /\ R' = [R EXCEPT !.seq = s]
          /\ okS' = Count(s)
          /\ okR' = Count(s)
    /\ last' = [NoCall EXCEPT !.op = "seed_seq", !.res = "Ok"]
    /\ UNCHANGED <<pc, suite, wire, opened, strayed, reord, hs>>

\* What an in-place operation that failed inside the AEAD leaves in the buffer is
\* undefined: the buffer as it was, or clobbered.
Junk(buffer) == { buffer, Garbage }

WireCt(ci) == IF ci = 0 THEN DummyCt ELSE wire[ci].ct
WireTag(ti) == IF ti = 0 THEN DummyTag ELSE wire[ti].tag

\* The open call is of a sealed ciphertext with its own tag and aad.
Own(ci, ti, aad) == ci >= 1 /\ ti = ci /\ aad = wire[ci].aad

\* sender_ctx.seal(&mut plaintext, aad).
Seal ==
    /\ pc = "run"
    /\ \E pt \in Msgs, aad \in Aads :
       \E junk \in Junk(pt) :
       \E r \in { seal(S, pt, aad, junk) } :
          /\ r.res = "Ok" => Len(wire) < MaxSeal
          /\ S' = r.ctx
          /\ wire' = IF r.res = "Ok"
                     THEN Append(wire, [ct |-> r.buf, tag |-> r.tag, aad |-> aad,
                                        pt |-> pt, seq |-> S.seq])
                     ELSE wire
          /\ okS' = IF r.res = "Ok" THEN AddOne(okS) ELSE okS
          /\ last' = [NoCall EXCEPT !.op = "seal", !.res = r.res, !.inBuf = pt,
                                    !.buf = r.buf, !.aad = aad, !.tag = r.tag,
                                    !.called = r.called]
    /\ reord' = NoReord
    /\ UNCHANGED <<pc, suite, R, opened, okR, strayed, hs>>

\* receiver_ctx.open(&mut ciphertext, aad, &tag), the ciphertext and the tag each taken
\* from what the sender sealed (ci, ti > 0) or the dummy values (0).
Open ==
    /\ pc = "run"
    /\ \E ci \in 0..Len(wire), ti \in 0..Len(wire), aad \in Aads :
       \E junk \in Junk(WireCt(ci)) :
       \E r \in { open(R, WireCt(ci), aad, WireTag(ti), junk) } :
          /\ R' = r.ctx
          /\ opened' = IF r.res = "Ok" THEN Append(opened, r.buf) ELSE opened
          /\ okR' = IF r.res = "Ok" THEN AddOne(okR) ELSE okR
          /\ last' = [NoCall EXCEPT !.op = "open", !.res = r.res, !.inBuf = WireCt(ci),
                                    !.buf = r.buf, !.aad = aad, !.tag = WireTag(ti),
                                    !.ci = ci, !.ti = ti, !.called = r.called]
          /\ strayed' = (strayed \/ ~(Own(ci, ti, aad) /\ ci = Len(opened) + 1))
          /\ reord' = IF Own(ci, ti, aad) /\ ci >= 2 /\ ~R.overflowed /\ R.seq = wire[ci - 1].seq
                      THEN [stage |-> 1, k |-> ci - 1, first |-> r.res]
                      ELSE IF reord.stage = 1 /\ Own(ci, ti, aad) /\ ci = reord.k
                      THEN [reord EXCEPT !.stage = 2]
                      ELSE NoReord
    /\ UNCHANGED <<pc, suite, S, wire, okS, hs>>

\* sender_ctx.export(exporter_ctx, &mut out_buf).
ExportS ==
    /\ pc = "run"
    /\ \E ectx \in ExporterCtxs, L \in Lens(suite.kdf) :
       \E r \in { export(suite.kdf, S, ectx, L) } :
             /\ S' = r.ctx
             /\ last' = [NoCall EXCEPT !.op = "exportS", !.res = r.res, !.out = r.out,
                                       !.ectx = ectx, !.len = L]
    /\ reord' = NoReord
    /\ UNCHANGED <<pc, suite, R, wire, opened, okS, okR, strayed, hs>>

\* receiver_ctx.export(exporter_ctx, &mut out_buf).
ExportR ==
    /\ pc = "run"
    /\ \E ectx \in ExporterCtxs, L \in Lens(suite.kdf) :
       \E r \in { export(suite.kdf, R, ectx, L) } :
             /\ R' = r.ctx
             /\ last' = [NoCall EXCEPT !.op = "exportR", !.res = r.res, !.out = r.out,
                                       !.ectx = ectx, !.len = L]
    /\ reord' = NoReord
    /\ UNCHANGED <<pc, suite, S, wire, opened, okS, okR, strayed, hs>>

Next ==
    \/ GenCtxSimplePair
    \/ SeedSeq
    \/ Seal
    \/ Open
    \/ ExportS
    \/ ExportR

Spec == Init /\ [][Next]_vars

(***************************************************************************)
(* Actions of the handshake.                                               *)
(***************************************************************************)
\* The sender's and the receiver's mode value of one kind.
SenderMode(kind, bundle, sk_id) ==
    [ kind |-> kind,
      bundle |-> IF HasPsk(kind) THEN bundle ELSE NoBundle,
      id |-> IF HasAuth(kind) THEN <<sk_id, sk_to_pk(KexOf(suite.kem), sk_id).val>> ELSE Absent ]

ReceiverMode(kind, bundle, pk_id) ==
    [ kind |-> kind,
      bundle |-> IF HasPsk(kind) THEN bundle ELSE NoBundle,
      id |-> IF HasAuth(kind) THEN pk_id ELSE Absent ]

\* setup_sender(&mode, &pk_recip, info, &mut csprng), for a recipient key pair from
\* gen_keypair, or against a point of low order.
SetupSender ==
    /\ pc = "start"
    /\ \E kind \in Kinds, bundle \in SenderBundles, sk_id \in SenderIdKeys,
          sk_recip \in GenKeys, sk_e \in GenKeys :
       \E pk_recip \in { sk_to_pk(KexOf(suite.kem), sk_recip).val } \cup LowOrder(KexOf(suite.kem)) :
       \E mode \in { SenderMode(kind, bundle, sk_id) } :
       \E r \in { setup_sender(suite, mode, pk_recip, SenderInfo, sk_e) } :
          /\ HasPsk(kind) \/ bundle = CHOOSE b \in SenderBundles : TRUE
          /\ pc' = IF r.res = "Ok" THEN "sent" ELSE "start"
          /\ S' = IF r.res = "Ok" THEN r.ctx ELSE S
          /\ hs' = IF r.res = "Ok"
                   THEN [hs EXCEPT !.made = TRUE, !.skR = sk_recip, !.pkR = pk_recip,
                                   !.sMode = mode, !.sInfo = SenderInfo,
                                   !.sId = IF HasAuth(kind) THEN mode.id ELSE NoId,
                                   !.enc = r.encapped_key, !.ssS = r.shared_secret]
                   ELSE hs
          /\ last' = [NoCall EXCEPT !.op = "setup_sender", !.res = r.res]
    /\ UNCHANGED <<suite, R, wire, opened, okS, okR, strayed, reord>>

\* The receiver's inputs that differ from the sender's in dev alone.
ReceiverInputs(dev) ==
    LET kx == KexOf(suite.kem)
        sKind == hs.sMode.kind
        sBundle == hs.sMode.bundle
        AnyBundle == [psk |-> Str("psk"), psk_id |-> Str("psk_id")]
        AnyId == sk_to_pk(kx, CHOOSE k \in SenderIdKeys : TRUE).val
        In(kind, bundle, pk_id, sk, enc, info) ==
            [mode |-> ReceiverMode(kind, bundle, pk_id), sk |-> sk, enc |-> enc, info |-> info]
    IN CASE dev = "none" ->
              { In(sKind, sBundle, hs.sId[2], hs.skR, hs.enc, hs.sInfo) }
         [] dev = "info" ->
              { In(sKind, sBundle, hs.sId[2], hs.skR, hs.enc, i) : i \in Infos \ { hs.sInfo } }
         [] dev = "sk" ->
              { In(sKind, sBundle, hs.sId[2], k, hs.enc, hs.sInfo) :
                  k \in { q \in PrivateKeys(kx) : sk_to_pk(kx, q).val # sk_to_pk(kx, hs.skR).val } }
         [] dev = "enc" ->
              { In(sKind, sBundle, hs.sId[2], hs.skR, e, hs.sInfo) :
                  e \in PublicKeys(kx) \ { hs.enc } }
         [] dev = "psk" ->
              IF HasPsk(sKind)
              THEN { In(sKind, [sBundle EXCEPT !.psk = q], hs.sId[2], hs.skR, hs.enc, hs.sInfo) :
                       q \in Psks \ { sBundle.psk } }
              ELSE {}
         [] dev = "psk_id" ->
              IF HasPsk(sKind)
              THEN { In(sKind, [sBundle EXCEPT !.psk_id = q], hs.sId[2], hs.skR, hs.enc, hs.sInfo) :
                       q \in PskIds \ { sBundle.psk_id } }
              ELSE {}
         [] dev = "pk_id" ->
              IF HasAuth(sKind)
              THEN { In(sKind, sBundle, q, hs.skR, hs.enc, hs.sInfo) :
                       q \in PublicKeys(kx) \ { hs.sId[2] } }
              ELSE {}
         [] dev = "kind" ->
              { In(k, IF HasPsk(sKind) THEN sBundle ELSE AnyBundle,
                   IF HasAuth(sKind) THEN hs.sId[2] ELSE AnyId, hs.skR, hs.enc, hs.sInfo) :
                  k \in Kinds \ { sKind } }

\* setup_receiver(&mode, &sk_recip, &encapped_key, info).
SetupReceiver ==
    /\ pc = "sent"
    /\ \E dev \in Devs :
       \E in \in ReceiverInputs(dev) :
       \E r \in { setup_receiver(suite, in.mode, in.sk, in.enc, in.info) } :
          /\ pc' = IF r.res = "Ok" THEN "run" ELSE "sent"
          /\ R' = IF r.res = "Ok" THEN r.ctx ELSE R
          /\ hs' = [hs EXCEPT !.rMode = in.mode, !.rSk = in.sk, !.rEnc = in.enc,
                              !.rInfo = in.info, !.ssR = r.shared_secret, !.dev = dev]
          /\ last' = [NoCall EXCEPT !.op = "setup_receiver", !.res = r.res]
    /\ UNCHANGED <<suite, S, wire, opened, okS, okR, strayed, reord>>

\* derive_receiver_ctx(&mode, shared_secret, info) on the shared secret of the sender's
\* encapsulation, in the sender's mode or another.
DeriveReceiverCtx ==
    /\ pc = "sent"
    /\ \E dev \in { "none", "kind" } :
       \E in \in ReceiverInputs(dev) :
          /\ R' = derive_receiver_ctx(suite, in.mode, hs.ssS, in.info)
          /\ hs' = [hs EXCEPT !.rMode = in.mode, !.rInfo = in.info, !.ssR = hs.ssS,
                              !.dev = "direct"]
    /\ pc' = "run"
    /\ last' = [NoCall EXCEPT !.op = "derive_receiver_ctx", !.res = "Ok"]
    /\ UNCHANGED <<suite, S, wire, opened, okS, okR, strayed, reord>>

NextSetup ==
    \/ SetupSender
    \/ SetupReceiver
    \/ DeriveReceiverCtx

SpecSetup == Init /\ [][NextSetup]_vars

(***************************************************************************)
(* Keys and tags: their parsing, their serialization, and the key exchange *)
(* operations, in the key exchange and AEAD of the suite. A call leaves in *)
(* last the object it made or took (obj: <<"pk", v>>, <<"sk", v>>,         *)
(* <<"tag", t>>, <<"dh", v>> or <<"pair", sk, pk>>), the bytes it read or  *)
(* wrote (enc), and for a from_bytes of the bytes the call before it wrote *)
(* the object those were written from (of).                                *)
(***************************************************************************)
\* Lengths around a size.
LensAround(size) == { size - 1, size, size + 1 }

\* Byte strings handed to PublicKey::from_bytes.
PkEncodings(kx) ==
    IF kx = "DhP256"
    THEN { Bytes(l, <<"sec1", t, p>>) : l \in LensAround(PublicKeySize(kx)),
              t \in { Sec1Uncompressed, Sec1Compressed }, p \in 0..(P256Wide - 1) }
    ELSE { Bytes(l, <<"u", v>>) : l \in LensAround(PublicKeySize(kx)), v \in 0..(X25519Order - 1) }

\* Byte strings handed to PrivateKey::from_bytes.
SkEncodings(kx) ==
    IF kx = "DhP256"
    THEN { Bytes(l, <<"int", v>>) : l \in LensAround(PrivateKeySize(kx)), v \in 0..(P256Wide - 1) }
    ELSE { Bytes(l, <<"int", v>>) : l \in LensAround(PrivateKeySize(kx)),
              v \in 0..(Cofactor * Cofactor - 1) }

\* The tags seal gives on a fresh context.
SealTags(st) ==
    { seal(AeadCtxNew(st, key, nonce, es), m, aad, m).tag :
         key \in RandKeys, nonce \in RandNonces, es \in RandSecrets,
         m \in Msgs \ { Oversize }, aad \in { Str("aad1") } }

\* Byte strings handed to AeadTag::from_bytes.
TagEncodings(st) ==
    { Bytes(l, t) : l \in LensAround(TagSize(st.aead)), t \in SealTags(st) \cup { DummyTag } }

\* Candidate streams of derive_keypair: the bytes the KDF gives for the ikm's.
Cands ==
    { [prefix |-> p, tail |-> t] :
         p \in { <<>>, <<0>>, <<P256Order>>, <<P256Wide - 1, P256Order + 1>> },
         t \in 0..(P256Wide - 1) }

\* The object the bytes now read were written from by the call before, if they were.
WrittenFrom(kind, e) ==
    IF last.op = "to_bytes" /\ last.obj[1] = kind /\ last.enc = e THEN last.obj ELSE <<"none">>

\* The bytes the call before wrote, if it was a to_bytes of this kind of object.
JustWritten(kind) ==
    IF last.op = "to_bytes" /\ last.obj[1] = kind THEN { last.enc } ELSE {}

KexCall(op, res, obj, enc, of, how) ==
    [NoCall EXCEPT !.op = op, !.res = res, !.obj = obj, !.enc = enc, !.of = of, !.how = how]

FromBytesCall(kind, e, r) ==
    KexCall("from_bytes", r.res, <<kind, r.val>>, e, WrittenFrom(kind, e), "none")

\* The public and the private key a call left, if it left one.
MadePk ==
    IF last.res = "Ok" /\ last.op \in { "from_bytes", "sk_to_pk" } /\ last.obj[1] = "pk"
    THEN { last.obj[2] }
    ELSE IF last.res = "Ok" /\ last.op = "derive_keypair" THEN { last.obj[3] } ELSE {}
MadeSk ==
    IF last.res = "Ok" /\ last.op = "from_bytes" /\ last.obj[1] = "sk"
    THEN { last.obj[2] }
    ELSE IF last.res = "Ok" /\ last.op = "derive_keypair" THEN { last.obj[2] } ELSE {}
MadeTag ==
    IF last.res = "Ok" /\ last.op = "from_bytes" /\ last.obj[1] = "tag" THEN { last.obj[2] } ELSE {}

KexUnchanged == UNCHANGED <<pc, suite, S, R, wire, opened, okS, okR, strayed, reord, hs>>

PublicKeyFromBytes ==
    /\ \E e \in PkEncodings(KexOf(suite.kem)) \cup JustWritten("pk") :
          last' = FromBytesCall("pk", e, PublicKey_from_bytes(KexOf(suite.kem), e))
    /\ KexUnchanged

PrivateKeyFromBytes ==
    /\ \E e \in SkEncodings(KexOf(suite.kem)) \cup JustWritten("sk") :
          last' = FromBytesCall("sk", e, PrivateKey_from_bytes(KexOf(suite.kem), e))
    /\ KexUnchanged

AeadTagFromBytes ==
    /\ \E e \in TagEncodings(suite) \cup JustWritten("tag") :
          last' = FromBytesCall("tag", e, AeadTag_from_bytes(suite.aead, e))
    /\ KexUnchanged

PublicKeyToBytes ==
    /\ \E pk \in MadePk :
          last' = KexCall("to_bytes", "Ok", <<"pk", pk>>,
                          PublicKey_to_bytes(KexOf(suite.kem), pk), <<"none">>, last.op)
    /\ KexUnchanged

PrivateKeyToBytes ==
    /\ \E sk \in MadeSk :
          last' = KexCall("to_bytes", "Ok", <<"sk", sk>>,
                          PrivateKey_to_bytes(KexOf(suite.kem), sk), <<"none">>, last.op)
    /\ KexUnchanged

AeadTagToBytes ==
    /\ \E how \in { "seal", "from_bytes" } :
       \E tag \in IF how = "seal" THEN SealTags(suite) ELSE MadeTag :
          last' = KexCall("to_bytes", "Ok", <<"tag", tag>>,
                          AeadTag_to_bytes(suite.aead, tag), <<"none">>, how)
    /\ KexUnchanged

SkToPk ==
    /\ \E sk \in MadeSk :
       \E r \in { sk_to_pk(KexOf(suite.kem), sk) } :
          last' = KexCall("sk_to_pk", r.res, <<"pk", r.val>>, Bytes(0, <<"none">>),
                          <<"sk", sk>>, last.op)
    /\ KexUnchanged

\* kex on a private key and a public key from_bytes gives.
Kex ==
    /\ \E sk \in PrivateKeys(KexOf(suite.kem)), pk \in PublicKeys(KexOf(suite.kem)) :
       \E r \in { kex(KexOf(suite.kem), sk, pk) } :
          last' = KexCall("kex", r.res, <<"dh", r.val>>, Bytes(0, <<"none">>),
                          <<"pair", sk, pk>>, "none")
    /\ KexUnchanged

DeriveKeypair ==
    /\ \E cand \in Cands :
       \E r \in { derive_keypair(KexOf(suite.kem), cand) } :
          last' = KexCall("derive_keypair", r.res, <<"pair", r.sk, r.pk>>,
                          Bytes(0, <<"none">>), <<"cand", cand, r.expansions>>, "none")
    /\ KexUnchanged

\* setup_receiver in the base mode on the encapped key the call before parsed.
SetupReceiverParsed ==
    /\ last.op = "from_bytes" /\ last.res = "Ok" /\ last.obj[1] = "pk"
    /\ \E sk_recip \in PrivateKeys(KexOf(suite.kem)) :
       \E r \in { setup_receiver(suite, BaseMode, sk_recip, last.obj[2], SenderInfo) } :
          /\ R' = IF r.res = "Ok" THEN r.ctx ELSE R
          /\ last' = KexCall("setup_receiver", r.res, last.obj, last.enc, <<"sk", sk_recip>>,
                             "from_bytes")
    /\ UNCHANGED <<pc, suite, S, wire, opened, okS, okR, strayed, reord, hs>>

NextKex ==
    \/ PublicKeyFromBytes
    \/ PrivateKeyFromBytes
    \/ AeadTagFromBytes
    \/ PublicKeyToBytes
    \/ PrivateKeyToBytes
    \/ AeadTagToBytes
    \/ SkToPk
    \/ Kex
    \/ DeriveKeypair
    \/ SetupReceiverParsed

SpecKex == Init /\ [][NextKex]_vars

(***************************************************************************)
(* Properties of the encryption context.                                   *)
(***************************************************************************)
\* The two contexts were made from the same key, base nonce, exporter secret and suite.
Matched ==
    /\ pc = "run"
    /\ S.encryptor = R.encryptor
    /\ S.nonce = R.nonce
    /\ S.exporter_secret = R.exporter_secret
    /\ S.suite_id = R.suite_id

\* 2^64 - 1 and 2^64 as counts of operations.
TwoTo64Less1 == Count(U64Max)
TwoTo64 == AddOne(Count(U64Max))

\* C1: on a matched pair, as long as the receiver has opened the sender's ciphertexts in
\* the order they were sealed, each with its own aad and tag, every open returns Ok and
\* leaves the plaintext that was sealed in the buffer; this includes the message sealed
\* at the last sequence number.
C1_RoundTrip ==
    (Matched /\ last.op = "open" /\ ~strayed) =>
        /\ last.res = "Ok"
        /\ last.buf = wire[last.ci].pt
        /\ opened = [i \in 1..Len(opened) |-> wire[i].pt]

\* C1 happens: the second in-order open succeeded, and it was the open that used the last
\* sequence number.
C1_Witness ==
    /\ Matched /\ last.op = "open" /\ ~strayed
    /\ last.ci = 2 /\ last.res = "Ok" /\ R.overflowed
    /\ wire[1].pt # wire[2].pt

\* C2 as stated: with c0, c1 sealed one after the other and the receiver at the sequence
\* number of c0, open(c1) followed by open(c0) fails twice with InvalidTag.
C2_BothFail ==
    (Matched /\ reord.stage = 2) =>
        (reord.first = "InvalidTag" /\ last.res = "InvalidTag")

\* C2 as the code has it: open(c1) fails with InvalidTag and leaves the receiver where it
\* was, so that the open(c0) after it succeeds and gives back the plaintext of c0.
C2_FirstFailsSecondOpens ==
    /\ (Matched /\ reord.stage >= 1) => reord.first = "InvalidTag"
    /\ (Matched /\ reord.stage = 2) =>
          /\ last.res = "Ok"
          /\ last.buf = wire[reord.k].pt
          /\ R.seq = wire[reord.k + 1].seq

\* C2 happens: open(c1) then open(c0) were called.
C2_Witness == Matched /\ reord.stage = 2 /\ last.op = "open" /\ last.ci = 1

\* The step is a call of seal (resp. open) or leaves everything as it is.
SealStep == last'.op = "seal"
OpenStep == last'.op = "open"

\* C3: a seal or open that returns an error leaves seq and overflowed of both contexts as
\* they were, and seq or overflowed of a context in use changes only in a seal (sender) or
\* an open (receiver) that returns Ok.
C3_ErrorKeepsState ==
    [][ /\ ((SealStep \/ OpenStep) /\ last'.res # "Ok") =>
              /\ S'.seq = S.seq /\ S'.overflowed = S.overflowed
              /\ R'.seq = R.seq /\ R'.overflowed = R.overflowed
        /\ (pc = "run" /\ last'.op # "seed_seq"
              /\ (S'.seq # S.seq \/ S'.overflowed # S.overflowed)) =>
              (SealStep /\ last'.res = "Ok")
        /\ (pc = "run" /\ last'.op # "seed_seq"
              /\ (R'.seq # R.seq \/ R'.overflowed # R.overflowed)) =>
              (OpenStep /\ last'.res = "Ok")
      ]_vars

\* C3 happens: an open failed on a bad tag after one open had succeeded, the receiver
\* still at seq = 1.
C3_Witness ==
    /\ last.op = "open" /\ last.res = "InvalidTag" /\ Len(opened) = 1
    /\ R.seq = AddOne(SeqDefault)

\* C4: a context at seq = 2^64 - 1 with overflowed unset does one more successful seal
\* (resp. open of the ciphertext sealed at that seq), which sets overflowed; every seal and
\* open after that returns SeqOverflow.
C4_OneMoreAtMax ==
    [][ /\ (S.seq = U64Max /\ ~S.overflowed /\ SealStep /\ last'.inBuf # Oversize) =>
              (last'.res = "Ok" /\ S'.overflowed /\ okS' = TwoTo64)
        /\ (S.overflowed /\ SealStep) => (last'.res = "SeqOverflow" /\ okS' = TwoTo64)
        /\ (Matched /\ R.seq = U64Max /\ ~R.overflowed /\ OpenStep
              /\ Own(last'.ci, last'.ti, last'.aad) /\ wire[last'.ci].seq = U64Max) =>
              (last'.res = "Ok" /\ R'.overflowed /\ okR' = TwoTo64)
        /\ (R.overflowed /\ OpenStep) => (last'.res = "SeqOverflow" /\ okR' = TwoTo64)
      ]_vars

\* C4 happens: both contexts went from 2^64 - 1 through their last success to a refusal.
C4_Witness ==
    /\ S.overflowed /\ R.overflowed /\ S.seq = U64Max /\ R.seq = U64Max
    /\ last.op = "open" /\ last.res = "SeqOverflow" /\ Len(opened) = 1

\* C5: overflowed, once set, stays set, and every seal or open on that context then
\* returns SeqOverflow without calling the AEAD, the buffer and the context as they were.
C5_OverflowedAbsorbing ==
    [][ /\ S.overflowed => S'.overflowed
        /\ R.overflowed => R'.overflowed
        /\ (S.overflowed /\ SealStep) =>
              (last'.res = "SeqOverflow" /\ ~last'.called /\ last'.buf = last'.inBuf /\ S' = S)
        /\ (R.overflowed /\ OpenStep) =>
              (last'.res = "SeqOverflow" /\ ~last'.called /\ last'.buf = last'.inBuf /\ R' = R)
      ]_vars

\* C5 happens: a seal was refused on an overflowed sender.
C5_Witness ==
    /\ S.overflowed /\ last.op = "seal" /\ last.res = "SeqOverflow"
    /\ last.buf = last.inBuf /\ ~last.called

\* The count of successful calls of a context that started at seq = 0: seq, plus one once
\* overflowed is set.
CountOf(ctx) == IF ctx.overflowed THEN AddOne(Count(ctx.seq)) ELSE Count(ctx.seq)

\* C6 as stated: SeqOverflow comes at the 2^64-th seal or open, 2^64 - 1 having succeeded.
C6_OverflowAt2To64 ==
    /\ (last.op = "seal" /\ last.res = "SeqOverflow") => okS = TwoTo64Less1
    /\ (last.op = "open" /\ last.res = "SeqOverflow") => okR = TwoTo64Less1

\* C6 as the code has it: the successes of a context are counted by seq and overflowed, and
\* SeqOverflow comes when 2^64 calls have succeeded (seq 0 to 2^64 - 1), that is at the
\* (2^64 + 1)-th seal or open.
C6_OverflowAfter2To64 ==
    /\ pc = "run" => (okS = CountOf(S) /\ okR = CountOf(R))
    /\ (last.op = "seal" /\ last.res = "SeqOverflow") => okS = TwoTo64
    /\ (last.op = "open" /\ last.res = "SeqOverflow") => okR = TwoTo64
    /\ (last.op = "seal" /\ last.res = "Ok" /\ ~S.overflowed) => okS # TwoTo64

\* C6 happens: a seal was refused with SeqOverflow.
C6_Witness == last.op = "seal" /\ last.res = "SeqOverflow" /\ okS = TwoTo64

\* What a context exports when no seal or open has been called on it.
FreshExport(ctx, ectx, L) ==
    <<"okm", ctx.exporter_secret, full_suite_id(suite), "sec", ectx, L>>

\* C7: export gives the bytes the context gave when it was made, whatever seal and open
\* calls came before, and leaves both contexts as they are.
C7_ExportStable ==
    [][ /\ (last'.op = "exportS" /\ last'.res = "Ok") =>
              last'.out = FreshExport(S', last'.ectx, last'.len)
        /\ (last'.op = "exportR" /\ last'.res = "Ok") =>
              last'.out = FreshExport(R', last'.ectx, last'.len)
        /\ last'.op \in { "exportS", "exportR" } => (S' = S /\ R' = R)
      ]_vars

\* C7 happens: the sender exported after the seal that set overflowed and a failed seal.
C7_Witness ==
    /\ last.op = "exportS" /\ last.res = "Ok" /\ S.overflowed /\ Len(wire) >= 1

\* C8: on a matched pair the sender's and the receiver's export agree for every exporter
\* context and length, wherever the two sequence counters stand.
C8_ExportAgrees ==
    Matched =>
        \A ectx \in ExporterCtxs, L \in Lens(suite.kdf) :
            /\ export(suite.kdf, S, ectx, L).res = export(suite.kdf, R, ectx, L).res
            /\ export(suite.kdf, S, ectx, L).out = export(suite.kdf, R, ectx, L).out
            /\ (last.op = "exportS" /\ last.ectx = ectx /\ last.len = L) =>
                  last.out = export(suite.kdf, R, ectx, L).out
            /\ (last.op = "exportR" /\ last.ectx = ectx /\ last.len = L) =>
                  last.out = export(suite.kdf, S, ectx, L).out

\* C8 happens: the receiver exported while the sender was two messages ahead.
C8_Witness ==
    /\ Matched /\ last.op = "exportR" /\ last.res = "Ok"
    /\ Len(wire) = 2 /\ Len(opened) = 0 /\ S.seq # R.seq

\* C9: export returns InvalidKdfLength exactly when the length is over 255 * Nh and Ok
\* otherwise, and leaves the context as it is either way.
C9_ExportLength ==
    [][ last'.op \in { "exportS", "exportR" } =>
          /\ last'.len > 255 * Nh(suite.kdf) => last'.res = "InvalidKdfLength"
          /\ last'.len <= 255 * Nh(suite.kdf) => last'.res = "Ok"
          /\ S' = S /\ R' = R
      ]_vars

\* C9 happens: an export was refused for its length, one byte over the limit.
C9_Witness ==
    /\ last.op = "exportS" /\ last.res = "InvalidKdfLength"
    /\ last.len = 255 * Nh(suite.kdf) + 1

(***************************************************************************)
(* Properties of the handshake.                                            *)
(***************************************************************************)
\* The receiver was set up with the sender's mode, for the key pair the sender encapsulated
\* to, with the encapped key the sender returned and the sender's info.
Agreeing ==
    /\ hs.made
    /\ pc = "run"
    /\ hs.pkR = sk_to_pk(KexOf(suite.kem), hs.skR).val
    /\ hs.dev = "none"

\* C10: in every mode, a receiver set up with the agreeing mode, the recipient's private
\* key, the sender's encapped key and the same info derives the sender's shared secret,
\* and its context has the sender's key, base nonce and exporter secret.
C10_SetupAgrees ==
    Agreeing =>
        /\ hs.ssR = hs.ssS
        /\ hs.ssS # Absent
        /\ R.encryptor = S.encryptor
        /\ R.nonce = S.nonce
        /\ R.exporter_secret = S.exporter_secret
        /\ R.encryptor # Absent

\* C10 happens: an AuthPsk handshake with agreeing inputs was completed.
C10_Witness ==
    /\ Agreeing
    /\ hs.sMode.kind = "AuthPsk" /\ hs.rMode.kind = "AuthPsk"
    /\ last.op = "setup_receiver" /\ last.res = "Ok"
    /\ hs.sMode.bundle.psk # Empty

\* aead_ctx_eq's probe, on contexts as the handshake made them: what the receiver's open
\* returns for the sender's first ciphertext.
OpensFirst(pt, aad) ==
    LET s == seal(S, pt, aad, pt)
    IN IF s.res = "Ok" THEN open(R, s.buf, aad, s.tag, s.buf).res ELSE "none"

\* The receiver context is not equivalent to the sender's: it opens none of the sender's
\* first ciphertexts, and every export of it differs from the sender's.
NotEquivalent ==
    /\ \A pt \in Msgs \ { Oversize }, aad \in Aads : OpensFirst(pt, aad) = "InvalidTag"
    /\ \A ectx \in ExporterCtxs, L \in { l \in Lens(suite.kdf) : l <= MaxExpand(suite.kdf) } :
          export(suite.kdf, S, ectx, L).out # export(suite.kdf, R, ectx, L).out

\* Both setup calls returned a context, and the receiver's inputs differed in dev alone.
Deviating(devs) ==
    /\ hs.made
    /\ pc = "run"
    /\ hs.pkR = sk_to_pk(KexOf(suite.kem), hs.skR).val
    /\ hs.dev \in devs

C12_ModeSoundness ==
    Deviating({ "psk", "psk_id", "pk_id" }) => NotEquivalent

\* C12 happens: the receiver's psk_id was not the sender's, in mode AuthPsk.
C12_Witness ==
    /\ Deviating({ "psk_id" })
    /\ hs.sMode.kind = "AuthPsk"
    /\ hs.rMode.bundle.psk_id # hs.sMode.bundle.psk_id
    /\ hs.rMode.bundle.psk = hs.sMode.bundle.psk

\* The key exchanges of decap fail for the receiver's inputs of the last setup_receiver.
DecapKexFails ==
    LET kx == KexOf(suite.kem)
    IN \/ kex(kx, hs.rSk, hs.rEnc).res # "Ok"
       \/ HasAuth(hs.rMode.kind) /\ kex(kx, hs.rSk, hs.rMode.id).res # "Ok"

\* C13: setup_sender and setup_receiver return Ok or InvalidKeyExchange and nothing else;
\* when a key exchange of encap or decap fails the call returns InvalidKeyExchange, no
\* context is made and the key schedule is not run.
C13_SetupErrors ==
    /\ last.op \in { "setup_sender", "setup_receiver" } =>
          last.res \in { "Ok", "InvalidKeyExchange" }
    /\ (last.op = "setup_sender" /\ last.res # "Ok") =>
          (pc = "start" /\ S = NullCtx(suite) /\ ~hs.made)
    /\ (last.op = "setup_sender" /\ last.res = "Ok") =>
          (pc = "sent" /\ hs.pkR \notin LowOrder(KexOf(suite.kem)) /\ S.encryptor # Absent)
    /\ last.op = "setup_receiver" =>
          /\ last.res = "InvalidKeyExchange" <=> DecapKexFails
          /\ last.res # "Ok" => (pc = "sent" /\ R = NullCtx(suite) /\ hs.ssR = Absent)
          /\ last.res = "Ok" => (pc = "run" /\ R.encryptor # Absent)

\* C13 happens: setup_receiver was given an encapped key of low order, and setup_sender
\* had succeeded before.
C13_Witness ==
    /\ last.op = "setup_receiver" /\ last.res = "InvalidKeyExchange"
    /\ hs.made /\ hs.rEnc \in LowOrder(KexOf(suite.kem))

(***************************************************************************)
(* Properties of keys, tags and their encodings.                           *)
(***************************************************************************)
\* The elements X25519 takes to the all-zero result with some private key.
ZeroDhElements ==
    { u \in 0..(X25519Order - 1) :
         \E sk \in PrivateKeys("X25519") : (Clamp(sk) * u) % X25519Order = 0 }

\* The bytes have the public key's size, and for P-256 are the uncompressed form of a
\* point of the curve other than the point at infinity.
WellFormedPk(kx, e) ==
    /\ e.len = PublicKeySize(kx)
    /\ kx = "DhP256" => (e.val[2] = Sec1Uncompressed /\ e.val[3] \in 1..(P256Order - 1))

\* The bytes are a valid group element other than the identity, and for X25519 one that
\* does not give the all-zero result.
ValidElement(kx, e) ==
    /\ WellFormedPk(kx, e)
    /\ kx = "X25519" => e.val[2] \notin ZeroDhElements

\* C14 as stated: an encapped key that is not a valid non-identity group element (wrong
\* length, off-curve or identity for P-256; wrong length or an element giving an all-zero
\* DH output for X25519) is rejected when it is parsed.
C14_RejectedWhenParsed ==
    (last.op = "from_bytes" /\ last.obj[1] = "pk" /\ ~ValidElement(KexOf(suite.kem), last.enc))
       => last.res = "InvalidEncoding"

\* C14, amended: the receiver never obtains a context from an encapped key that is not a
\* valid non-identity group element. An encapped key of wrong length, and for P-256 one
\* that is off-curve or the identity, is rejected with InvalidEncoding when it is parsed;
\* an X25519 element giving an all-zero DH output is parsed, and rejected with
\* InvalidKeyExchange by setup_receiver, which makes no context.
C14_NoContextFromInvalidKey ==
    [][ /\ (last'.op = "from_bytes" /\ last'.obj[1] = "pk") =>
              (last'.res = "InvalidEncoding" <=> ~WellFormedPk(KexOf(suite.kem), last'.enc))
        /\ (last'.op = "setup_receiver" /\ ~ValidElement(KexOf(suite.kem), last'.enc)) =>
              (last'.res = "InvalidKeyExchange" /\ R' = R)
        /\ R' # R =>
              (last'.op = "setup_receiver" /\ last'.res = "Ok"
                 /\ ValidElement(KexOf(suite.kem), last'.enc)) ]_vars

\* C14 happens: an X25519 encapped key of the right length that gives the all-zero DH
\* output was parsed, and setup_receiver on it failed.
C14_Witness ==
    /\ KexOf(suite.kem) = "X25519"
    /\ last.op = "setup_receiver" /\ last.res = "InvalidKeyExchange"
    /\ last.enc.len = PublicKeySize("X25519") /\ last.enc.val[2] \in ZeroDhElements
    /\ R = NullCtx(suite)

\* The X25519 function of a private key's bytes and a public key: the clamped scalar times
\* the element.
DiffieHellman(sk, u) == (Clamp(sk) * u) % X25519Order

\* C15: X25519 kex(sk, pk) returns InvalidKeyExchange if and only if the Diffie-Hellman
\* output is all zeros; otherwise it returns Ok with that output.
C15_ZeroDhRejected ==
    (last.op = "kex" /\ KexOf(suite.kem) = "X25519") =>
       LET dh == DiffieHellman(last.of[2], last.of[3])
       IN /\ last.res = "InvalidKeyExchange" <=> dh = 0
          /\ last.res # "InvalidKeyExchange" => (last.res = "Ok" /\ last.obj = <<"dh", dh>>)

\* C15 happens: kex was called with a public key of low order that is not the zero element.
C15_Witness ==
    /\ last.op = "kex" /\ KexOf(suite.kem) = "X25519"
    /\ last.of[3] = SubgroupOrder
    /\ last.res = "InvalidKeyExchange"

\* The scalar a private key multiplies by, in the group generated by the base point.
ScalarOf(kx, sk) == IF kx = "DhP256" THEN sk % P256Order ELSE Clamp(sk) % SubgroupOrder

\* The group's identity, as a public key value: the zero of the additive group.
Identity(kx) == IF kx = "DhP256" THEN 0 ELSE 0

\* The private keys and public keys the last call returned.
PrivateKeyMade == last.res = "Ok" /\ MadeSk # {}
PublicKeyMade == last.res = "Ok" /\ MadePk # {}

C18_SerializeRoundTrip ==
    (last.op = "from_bytes" /\ last.of[1] # "none") =>
       (last.res = "Ok" /\ last.obj = last.of)

\* C18 happens: a P-256 public key was written by to_bytes and the bytes were read back.
C18_Witness ==
    /\ KexOf(suite.kem) = "DhP256"
    /\ last.op = "from_bytes" /\ last.of[1] = "pk"
    /\ last.enc = DhP256_PublicKey_to_bytes(last.of[2])

\* The size the type of the object last parsed declares: 65 for a P-256 public key, 32 for
\* an X25519 public key and for the private keys, Nt for a tag.
DeclaredSize ==
    IF last.obj[1] = "pk" THEN (IF KexOf(suite.kem) = "DhP256" THEN 65 ELSE 32)
    ELSE IF last.obj[1] = "sk" THEN 32
    ELSE TagSize(suite.aead)

\* C19: from_bytes returns InvalidEncoding for any input whose length differs from the
\* type's declared size, and for P-256 public keys also for correctly sized bytes that are
\* not an on-curve non-identity point; an AEAD tag of exactly Nt bytes is always accepted.
C19_MalformedRejected ==
    last.op = "from_bytes" =>
       /\ last.enc.len # DeclaredSize => last.res = "InvalidEncoding"
       /\ (last.obj[1] = "pk" /\ KexOf(suite.kem) = "DhP256" /\ last.enc.len = DeclaredSize
             /\ ~(last.enc.val[2] = Sec1Uncompressed /\ last.enc.val[3] \in 1..(P256Order - 1)))
             => last.res = "InvalidEncoding"
       /\ (last.obj[1] = "tag" /\ last.enc.len = DeclaredSize) => last.res = "Ok"

\* C19 happens: from_bytes of an X25519 public key was given one byte too many.
C19_Witness ==
    /\ KexOf(suite.kem) = "X25519"
    /\ last.op = "from_bytes" /\ last.obj[1] = "pk"
    /\ last.enc.len = DeclaredSize + 1
    /\ last.res = "InvalidEncoding"

\* C20: P-256 PrivateKey::from_bytes returns InvalidEncoding for every 32-byte big-endian
\* value outside the range [1, group_order), zero and every value greater than or equal to
\* the group order; only values in [1, group_order) are accepted.
C20_OutOfRangeRejected ==
    (last.op = "from_bytes" /\ last.obj[1] = "sk" /\ KexOf(suite.kem) = "DhP256"
       /\ last.enc.len = PrivateKeySize("DhP256")) =>
       /\ last.enc.val[2] \notin 1..(P256Order - 1) => last.res = "InvalidEncoding"
       /\ last.res = "Ok" => last.enc.val[2] \in 1..(P256Order - 1)

(***************************************************************************)
(* Properties of the operation modes.                                      *)
(***************************************************************************)
\* psk and psk_id of a bundle are both empty or both non-empty.
BothOrNeither(bundle) == (bundle.psk = Empty) <=> (bundle.psk_id = Empty)

\* C21: every PskBundle that reaches the key schedule through setup_sender or
\* setup_receiver has psk and psk_id both empty or both non-empty; a Psk / AuthPsk mode with
\* exactly one of them empty never yields a context.
C21_PskBundleBothOrNeither ==
    /\ (last.op = "setup_sender" /\ last.res = "Ok" /\ HasPsk(hs.sMode.kind)) =>
          BothOrNeither(hs.sMode.bundle)
    /\ (last.op = "setup_receiver" /\ last.res = "Ok" /\ HasPsk(hs.rMode.kind)) =>
          BothOrNeither(hs.rMode.bundle)

\* What the key schedule bound into a context's key: the key is the expansion of the secret
\* over the key schedule context, the secret the extraction of the shared secret salted
\* with the PSK's hash, and the key schedule context the mode id, the PSK id's hash and the
\* info's hash.
BoundModeId(ctx) == ctx.encryptor[5][2][2]
BoundPskId(ctx) == ctx.encryptor[5][3][5]
BoundPsk(ctx) == ctx.encryptor[2][2][5]

\* The ids of the four variants.
IdOf(kind) ==
    CASE kind = "Base" -> 0 [] kind = "Psk" -> 1 [] kind = "Auth" -> 2 [] kind = "AuthPsk" -> 3

\* C22: mode_id returns 0x00 for Base, 0x01 for Psk, 0x02 for Auth and 0x03 for AuthPsk, and
\* the sender view and the receiver view of the same variant return the same id.
C22_ModeIds ==
    /\ hs.made => BoundModeId(S) = IdOf(hs.sMode.kind)
    /\ pc = "run" => BoundModeId(R) = IdOf(hs.rMode.kind)
    /\ (pc = "run" /\ hs.rMode.kind = hs.sMode.kind) => BoundModeId(R) = BoundModeId(S)

\* C22 happens: both sides ran the key schedule in the AuthPsk mode.
C22_Witness ==
    /\ pc = "run" /\ hs.made
    /\ hs.sMode.kind = "AuthPsk" /\ hs.rMode.kind = "AuthPsk"
    /\ BoundModeId(R) = 3

C24_FreshContext ==
    /\ (last.op = "setup_sender" /\ last.res = "Ok") =>
          (S.seq = <<0, 0, 0, 0, 0, 0, 0, 0>> /\ ~S.overflowed)
    /\ (last.op \in { "setup_receiver", "derive_receiver_ctx" } /\ last.res = "Ok") =>
          (R.seq = <<0, 0, 0, 0, 0, 0, 0, 0>> /\ ~R.overflowed)

\* C24 happens: derive_receiver_ctx returned a context with a key.
C24_Witness ==
    /\ last.op = "derive_receiver_ctx" /\ hs.dev = "direct"
    /\ R.encryptor # Absent

(***************************************************************************)
(* Properties of the sequence counter and the nonce.                       *)
(***************************************************************************)
\* The counter of a context before and after a successful call: one more below 2^64 - 1,
\* and at 2^64 - 1 left there with overflowed set.
Stepped(before, after) ==
    IF before.seq # U64Max
    THEN after.seq = AddOne(before.seq) /\ ~after.overflowed /\ after.seq # SeqDefault
    ELSE after.seq = U64Max /\ after.overflowed

\* C25: on every successful seal or open, if seq < 2^64 - 1 then seq becomes seq + 1 and
\* overflowed stays false; if seq = 2^64 - 1 then overflowed becomes true and seq is left at
\* 2^64 - 1: the counter never wraps around to 0.
C25_SeqTransition ==
    [][ /\ (SealStep /\ last'.res = "Ok") => (~S.overflowed /\ Stepped(S, S'))
        /\ (OpenStep /\ last'.res = "Ok") => (~R.overflowed /\ Stepped(R, R'))
      ]_vars

\* C25 happens: the sender sealed at 2^64 - 2, which moved seq to 2^64 - 1, and sealed
\* again, which set overflowed.
C25_Witness ==
    /\ last.op = "seal" /\ last.res = "Ok"
    /\ Len(wire) = 2 /\ wire[1].seq = SubOne(U64Max) /\ wire[2].seq = U64Max
    /\ S.seq = U64Max /\ S.overflowed

\* C26: the overflow check precedes the tag check: open on an overflowed receiver context
\* returns SeqOverflow, never InvalidTag, even when the ciphertext and tag are invalid.
C26_OverflowBeforeTag ==
    [][ /\ (OpenStep /\ R.overflowed) => last'.res = "SeqOverflow"
        /\ (OpenStep /\ last'.res = "InvalidTag") => ~R.overflowed
      ]_vars

\* C26 happens: an overflowed receiver was given the all-zero ciphertext and tag, which no
\* key verifies, and refused with SeqOverflow.
C26_Witness ==
    /\ last.op = "open" /\ last.res = "SeqOverflow"
    /\ last.ci = 0 /\ last.ti = 0 /\ last.inBuf = DummyCt /\ last.tag = DummyTag
    /\ R.overflowed

\* The nonce the i-th seal gave the AEAD, which the tag it returned was made under.
NonceOf(i) == wire[i].tag[3]

\* C27: the per-message nonce equals base_nonce XOR the Nn-byte big-endian encoding of seq:
\* the first Nn - 8 bytes equal those of base_nonce and the last 8 bytes are base_nonce's
\* last 8 bytes XOR the big-endian u64 seq; the nonce for seq = 0 is base_nonce itself.
C27_NonceMixing ==
    \A i \in 1..Len(wire) :
       /\ NonceOf(i).base = S.nonce.base
       /\ Len(NonceOf(i).x) = 12
       /\ \A j \in 1..(12 - 8) : NonceOf(i).x[j] = S.nonce.x[j]
       /\ \A j \in 1..8 :
             NonceOf(i).x[12 - 8 + j] = XorByte(S.nonce.x[12 - 8 + j], wire[i].seq[j])
       /\ wire[i].seq = <<0, 0, 0, 0, 0, 0, 0, 0>> => NonceOf(i) = S.nonce

\* C27 happens: the sender sealed at seq = 0 and at seq = 1, under the base nonce and under
\* a nonce that differs from it in the last byte alone.
C27_Witness ==
    /\ Len(wire) = 2
    /\ wire[1].seq = <<0, 0, 0, 0, 0, 0, 0, 0>> /\ NonceOf(1) = S.nonce
    /\ wire[2].seq = <<0, 0, 0, 0, 0, 0, 0, 1>>
    /\ NonceOf(2).x[12] # S.nonce.x[12]
    /\ \A j \in 1..11 : NonceOf(2).x[j] = S.nonce.x[j]

(***************************************************************************)
(* Properties of the order of delivery.                                    *)
(***************************************************************************)
\* C28: if a ciphertext is lost (the receiver never opens ciphertext i), every open of a
\* later ciphertext j > i from the same sender fails with InvalidTag and the receiver's seq
\* stays at i, for as long as ciphertext i is not presented.
C28_LossBlocksLater ==
    [][ \A i \in 1..Len(wire) :
          (Matched /\ R.seq = wire[i].seq /\ OpenStep
             /\ Own(last'.ci, last'.ti, last'.aad) /\ last'.ci > i) =>
             (last'.res = "InvalidTag" /\ R'.seq = wire[i].seq
                /\ R'.overflowed = R.overflowed /\ opened' = opened)
      ]_vars

\* C28 happens: the first ciphertext was never opened and the open of the second, with its
\* own aad and tag, failed.
C28_Witness ==
    /\ Matched /\ Len(wire) = 2 /\ Len(opened) = 0
    /\ last.op = "open" /\ last.res = "InvalidTag" /\ Own(last.ci, last.ti, last.aad)
    /\ last.ci = 2 /\ R.seq = wire[1].seq
    /\ reord.stage = 1 /\ reord.first = "InvalidTag"

\* C29: a ciphertext that a receiver context has already opened successfully can never be
\* opened successfully again by that same context: a replay returns InvalidTag (or
\* SeqOverflow). An open succeeds only on the sender's next ciphertext in order, so the
\* ciphertexts opened successfully so far are the first Len(opened) of wire.
C29_NoReplay ==
    [][ /\ (OpenStep /\ last'.res = "Ok") =>
              (Own(last'.ci, last'.ti, last'.aad) /\ last'.ci = Len(opened) + 1)
        /\ (OpenStep /\ last'.ci >= 1 /\ last'.ci <= Len(opened)) =>
              (last'.res \in { "InvalidTag", "SeqOverflow" } /\ opened' = opened /\ R' = R)
      ]_vars

\* C29 happens: the first ciphertext was opened, then the second, and the first was then
\* presented again with its own aad and tag and refused on its tag.
C29_Witness ==
    /\ Len(opened) = 2
    /\ last.op = "open" /\ last.ci = 1 /\ Own(last.ci, last.ti, last.aad)
    /\ last.res = "InvalidTag"

\* The fields of a context that are set when it is made: its AEAD key, base nonce,
\* exporter secret and suite id.
Fixed(ctx) == <<ctx.encryptor, ctx.nonce, ctx.exporter_secret, ctx.suite_id>>

\* C30: seal, open and export never modify the context's AEAD key, base nonce, exporter
\* secret or suite id: after any sequence of operations these fields equal the values given
\* at construction; only seq and overflowed (and the caller's buffer) can change.
C30_FixedFields ==
    [][ pc = "run" => (Fixed(S') = Fixed(S) /\ Fixed(R') = Fixed(R)) ]_vars

\* C30 happens: after two seals, two opens and an export the sender holds the key, nonce
\* and exporter secret it was made with, its counter advanced.
C30_Witness ==
    /\ pc = "run" /\ Len(wire) = 2 /\ Len(opened) = 2
    /\ last.op = "exportS" /\ last.res = "Ok"
    /\ S.encryptor \in RandKeys /\ S.nonce \in RandNonces /\ S.exporter_secret \in RandSecrets
    /\ S.suite_id = full_suite_id(suite)
    /\ S.seq # SeqDefault

(***************************************************************************)
(* Properties of the derivation of key pairs.                              *)
(***************************************************************************)
\* The counters whose candidate, read as a big-endian integer, lies in [1, group_order).
InRange(cand) == { c \in 0..U8Max : Candidate(cand, c) \in 1..(P256Order - 1) }

\* The call before was derive_keypair of P-256.
DerivedP256 == last.op = "derive_keypair" /\ KexOf(suite.kem) = "DhP256"

\* C31: P-256 derive_keypair tries counters 0, 1, ..., 255 in order and returns the key for
\* the smallest counter whose candidate lies in [1, group_order); a candidate equal to 0 or
\* >= group_order is rejected and the next counter is tried.
C31_FirstInRange ==
    DerivedP256 =>
       \A c \in InRange(last.of[2]) :
          (\A d \in InRange(last.of[2]) : c <= d) =>
             /\ last.res = "Ok"
             /\ last.obj[2] = Candidate(last.of[2], c)
             /\ last.of[3] = c + 1

\* C32: P-256 derive_keypair always terminates after at most 256 candidate expansions: it
\* either returns a keypair (sk, pk) with pk = sk_to_pk(sk), or, only when all 256
\* candidates were rejected, signals the unrecoverable derivation failure.
C32_ReturnsOrAllRejected ==
    DerivedP256 =>
       /\ last.of[3] <= U8Max + 1
       /\ \/ /\ last.res = "Ok"
             /\ <<last.res, last.obj[3]>> =
                   <<DhP256_sk_to_pk(last.obj[2]).res, DhP256_sk_to_pk(last.obj[2]).val>>
          \/ /\ last.res = "panic"
             /\ \A c \in 0..U8Max : Candidate(last.of[2], c) \notin 1..(P256Order - 1)

\* C39: P-256 kex and sk_to_pk never hit their unwrap on the point at infinity: for every
\* PrivateKey obtainable from PrivateKey::from_bytes or derive_keypair and every PublicKey
\* obtainable from PublicKey::from_bytes, sk_to_pk or derive_keypair, both sk * G and
\* sk * pk are non-identity points, so kex always returns Ok. In derive_keypair the loop
\* ends in a call of sk_to_pk whenever a candidate is taken.
C39_NeverUnwrapsInfinity ==
    KexOf(suite.kem) = "DhP256" =>
       /\ last.op \in { "kex", "sk_to_pk" } => last.res = "Ok"
       /\ \A sk \in MadeSk : DhP256_sk_to_pk(sk).res = "Ok"
       /\ \A sk \in MadeSk, pk \in MadePk : DhP256_kex(sk, pk).res = "Ok"
       /\ (DerivedP256 /\ TakenCounters(last.of[2]) # {}) => last.res = "Ok"

(***************************************************************************)
(* Properties of the handshake's use of its inputs.                        *)
(***************************************************************************)
\* What a KEM shared secret was made from: the Diffie-Hellman output and the KEM context
\* with the identity key pk_id in them (the authenticated form) or without.
KemInputs(ss) == <<ss[2][5][1], ss[5]>>
AuthKemInputs(pk_e, pk_recip, pk_id) ==
    <<"cat", <<"cat", pk_to_bytes(KexOf(suite.kem), pk_e), pk_to_bytes(KexOf(suite.kem), pk_recip),
               pk_to_bytes(KexOf(suite.kem), pk_id)>>>>
BaseKemInputs(pk_e, pk_recip) ==
    <<"dh", <<"cat", pk_to_bytes(KexOf(suite.kem), pk_e), pk_to_bytes(KexOf(suite.kem), pk_recip)>>>>

\* The mode with its identity key taken away.
WithoutId(mode) == [mode EXCEPT !.id = Absent]

\* C33: identity key material is used exactly in the authenticated modes:
\* get_sender_id_keypair / get_pk_sender_id return a key if and only if the variant is Auth
\* or AuthPsk, so setup_sender / setup_receiver perform the authenticated encap / decap in
\* Auth and AuthPsk and the unauthenticated one in Base and Psk; the key schedule itself
\* reads only mode id, psk and psk_id from the mode.
C33_IdentityOnlyWhenAuth ==
    /\ hs.made =>
          /\ get_sender_id_keypair(hs.sMode).some <=> HasAuth(hs.sMode.kind)
          /\ KemInputs(hs.ssS) =
                IF HasAuth(hs.sMode.kind)
                THEN AuthKemInputs(hs.enc, hs.pkR, hs.sMode.id[2])
                ELSE BaseKemInputs(hs.enc, hs.pkR)
          /\ S = derive_enc_ctx(suite, "S", WithoutId(hs.sMode), hs.ssS, hs.sInfo)
    /\ (last.op = "setup_receiver" /\ last.res = "Ok") =>
          /\ get_pk_sender_id(hs.rMode).some <=> HasAuth(hs.rMode.kind)
          /\ KemInputs(hs.ssR) =
                IF HasAuth(hs.rMode.kind)
                THEN AuthKemInputs(hs.rEnc, sk_to_pk(KexOf(suite.kem), hs.rSk).val, hs.rMode.id)
                ELSE BaseKemInputs(hs.rEnc, sk_to_pk(KexOf(suite.kem), hs.rSk).val)
          /\ R = derive_enc_ctx(suite, "R", WithoutId(hs.rMode), hs.ssR, hs.rInfo)

\* C33 happens: the sender set up in AuthPsk with its identity key pair, the receiver in
\* Psk with the same bundle and no identity key.
C33_Witness ==
    /\ last.op = "setup_receiver" /\ last.res = "Ok"
    /\ hs.sMode.kind = "AuthPsk" /\ hs.sMode.id # Absent
    /\ hs.rMode.kind = "Psk" /\ hs.rMode.id = Absent
    /\ hs.rMode.bundle = hs.sMode.bundle

(***************************************************************************)
(* Properties of a context pair over its whole life.                       *)
(***************************************************************************)
\* C34: within one sender context no two successful seal calls ever use the same AEAD
\* nonce; each successful seal uses the nonce of a distinct seq value.
C34_NonceUnique ==
    \A i, j \in 1..Len(wire) :
       i # j =>
          /\ NonceOf(i) # NonceOf(j)
          /\ wire[i].seq # wire[j].seq
          /\ NonceOf(i) = mix_nonce(S.nonce, wire[i].seq)

\* C34 happens: two messages were sealed, the second at the last sequence number, which
\* left the context overflowed.
C34_Witness ==
    /\ Len(wire) = 2
    /\ wire[1].seq = SubOne(U64Max) /\ wire[2].seq = U64Max
    /\ S.overflowed
    /\ NonceOf(1) # NonceOf(2)

\* a <= b, for two sequence numbers as big-endian bytes.
SeqLe(a, b) ==
    \/ a = b
    \/ \E i \in 1..SeqSize : a[i] < b[i] /\ \A j \in 1..(i - 1) : a[j] = b[j]

\* C35: in every reachable context state seq never decreases, and overflowed = true
\* implies seq = 2^64 - 1.
C35_SeqMonotone ==
    [][ /\ SeqLe(S.seq, S'.seq) /\ SeqLe(R.seq, R'.seq)
        /\ S'.overflowed => S'.seq = U64Max
        /\ R'.overflowed => R'.seq = U64Max
      ]_vars

\* C35 happens: both contexts went from 2^64 - 2 to 2^64 - 1 and then overflowed there.
C35_Witness ==
    /\ Len(wire) = 2 /\ wire[1].seq = SubOne(U64Max)
    /\ Len(opened) = 2
    /\ S.overflowed /\ S.seq = U64Max
    /\ R.overflowed /\ R.seq = U64Max

\* The call before was an open of a sealed ciphertext with its own tag and aad, on a
\* matched pair, after some open that was not of the next ciphertext in order.
OpenedOwnAfterStray ==
    Matched /\ strayed /\ last.op = "open" /\ Own(last.ci, last.ti, last.aad)

\* C36: a failed open does not desynchronize the receiver. After any number of opens that
\* return InvalidTag (forged, corrupted or out-of-order input), an open of the sender's
\* next in-order ciphertext with its tag and aad still succeeds and recovers the plaintext.
\* The ciphertext after the ones opened so far is never the one an open just failed on, and
\* the open that took it left its plaintext.
C36_FailedOpenKeepsSync ==
    OpenedOwnAfterStray =>
       /\ last.res # "Ok" => last.ci # Len(opened) + 1
       /\ last.res = "Ok" =>
             /\ last.ci = Len(opened)
             /\ last.buf = wire[last.ci].pt
             /\ opened[last.ci] = wire[last.ci].pt

\* C36 happens: after an open that failed, the second ciphertext in order was opened and
\* gave its plaintext.
C36_Witness ==
    /\ OpenedOwnAfterStray
    /\ last.res = "Ok" /\ last.ci = 2 /\ Len(opened) = 2
    /\ last.buf = wire[2].pt

\* C37: under any reordering, duplication or loss of the sender's ciphertexts, the
\* sequence of plaintexts that a matched receiver context opens successfully is always a
\* prefix of the sequence of plaintexts the sender sealed (the k-th successful open yields
\* the k-th sealed message), so the receiver's seq never exceeds the sender's.
C37_OpenedIsPrefix ==
    Matched =>
       /\ Len(opened) <= Len(wire)
       /\ \A k \in 1..Len(opened) : opened[k] = wire[k].pt
       /\ SeqLe(R.seq, S.seq)
       /\ R.overflowed => S.overflowed

\* C37 happens: of two different messages sealed the receiver has opened the first, and
\* was then given the first again, which it refused.
C37_Witness ==
    /\ Matched /\ Len(wire) = 2 /\ wire[1].pt # wire[2].pt
    /\ opened = <<wire[1].pt>>
    /\ last.op = "open" /\ last.ci = 1 /\ Own(last.ci, last.ti, last.aad)
    /\ last.res = "InvalidTag"
    /\ R.seq # S.seq

(***************************************************************************)
(* Properties of the key schedule.                                         *)
(***************************************************************************)
\* Both contexts exist, made for the recipient's own key pair, the receiver's in another
\* mode variant than the sender's.
OtherVariant ==
    /\ hs.made
    /\ pc = "run"
    /\ hs.pkR = sk_to_pk(KexOf(suite.kem), hs.skR).val
    /\ hs.rMode.kind # hs.sMode.kind

\* C38: the mode variant itself is bound into the key schedule. A sender and receiver that
\* use different mode variants with otherwise identical inputs, e.g. sender Psk with an
\* empty psk and empty psk_id versus receiver Base, derive non-equivalent contexts because
\* the one-byte mode id differs in the schedule context.
C38_ModeVariantBound ==
    OtherVariant =>
       /\ BoundModeId(S) # BoundModeId(R)
       /\ NotEquivalent

\* C38 happens: the sender set up in Psk with an empty psk and an empty psk_id, the
\* receiver in Base; shared secret, psk, psk_id and info are the same on both sides and
\* the keys differ.
C38_Witness ==
    /\ OtherVariant
    /\ hs.sMode.kind = "Psk" /\ hs.sMode.bundle = [psk |-> Empty, psk_id |-> Empty]
    /\ hs.rMode.kind = "Base"
    /\ last.op = "setup_receiver" /\ last.res = "Ok"
    /\ hs.ssR = hs.ssS /\ hs.rInfo = hs.sInfo
    /\ BoundPsk(R) = BoundPsk(S) /\ BoundPskId(R) = BoundPskId(S)
    /\ R.encryptor # S.encryptor

\* What setup_receiver returns for the recipient's key, the sender's encapped key and the
\* mode and info the receiver's context was made with.
ViaDecap == setup_receiver(suite, hs.rMode, hs.skR, hs.enc, hs.rInfo)

\* The sender's and the receiver's key schedule were given the same mode id, psk, psk_id,
\* shared secret and info.
SameScheduleInputs ==
    /\ hs.made /\ pc = "run"
    /\ mode_id("S", hs.sMode) = mode_id("R", hs.rMode)
    /\ get_psk_bytes("S", hs.sMode) = get_psk_bytes("R", hs.rMode)
    /\ get_psk_id("S", hs.sMode) = get_psk_id("R", hs.rMode)
    /\ hs.ssS = hs.ssR
    /\ hs.sInfo = hs.rInfo

\* C40: the key schedule is a deterministic function of (suite id, mode id, psk, psk_id,
\* shared secret, info) only. Two runs with equal inputs give equal (key, base nonce,
\* exporter secret), so derive_receiver_ctx called with the shared secret that decap would
\* return yields a context equivalent to the one setup_receiver returns.
C40_ScheduleDeterministic ==
    /\ SameScheduleInputs => Fixed(R) = Fixed(S)
    /\ (last.op = "derive_receiver_ctx" /\ ViaDecap.res = "Ok"
          /\ ViaDecap.shared_secret = hs.ssR) =>
          /\ R = ViaDecap.ctx
          /\ \A ectx \in ExporterCtxs, L \in Lens(suite.kdf) :
                export(suite.kdf, R, ectx, L).out = export(suite.kdf, ViaDecap.ctx, ectx, L).out

\* C40 happens: after a sender's AuthPsk handshake the receiver's context was derived
\* directly from the shared secret, which is the one decap gives for the sender's encapped
\* key, and it is the sender's context.
C40_Witness ==
    /\ last.op = "derive_receiver_ctx" /\ hs.dev = "direct"
    /\ hs.sMode.kind = "AuthPsk" /\ hs.rMode.kind = "AuthPsk"
    /\ ViaDecap.res = "Ok" /\ ViaDecap.shared_secret = hs.ssR
    /\ SameScheduleInputs
    /\ R.encryptor = S.encryptor /\ R.encryptor # Absent

====
